---- MODULE Spec2Model ----
(***************************************************************************)
(* A model of the calculator protocol of this repository: the 12-byte      *)
(* header codec (api.py, CalculatorHeader) and the caching proxy           *)
(* (proxy.py, process_request / client_handler), one worker thread per     *)
(* client connection, all workers sharing the module-level cache dict.     *)
(***************************************************************************)
EXTENDS Integers, Sequences, FiniteSets, TLC

(***************************************************************************)
(* Bounds of the model.                                                    *)
(***************************************************************************)
\* number of proxy worker threads (one per accepted client connection)
NumWorkers == 2
\* requests the proxy accepts in one run, over all workers
MaxRequests == 2
\* number of clock advances in one run
MaxTicks == 1
\* the clock's reading when the proxy starts
StartTime == 1000

(***************************************************************************)
(* Program constants.                                                      *)
(***************************************************************************)
\* api.py:88  struct.calcsize('!LHHHxx')
HEADER_MIN_LENGTH == 12
\* api.py:90  2**16
HEADER_MAX_LENGTH == 65536
\* api.py:91
HEADER_MAX_DATA_LENGTH == HEADER_MAX_LENGTH - HEADER_MIN_LENGTH
\* api.py:95  2**16 - 1
MAX_CACHE_CONTROL == 65535
\* proxy.py:9
INDEFINITE == MAX_CACHE_CONTROL
\* server.py:7 and server.py:9
CACHE_POLICY == TRUE
CACHE_CONTROL == 65535
\* api.py:97-99
STATUS_OK == 200
STATUS_CLIENT_ERROR == 400
STATUS_SERVER_ERROR == 500

\* largest value of the struct format character H (16 bit unsigned); the 32 bit
\* L is checked through its upper half, L <= 2^32 - 1 iff (L div 2^16) <= MaxH
MaxH == 65535

(***************************************************************************)
(* Arithmetic helpers for the bit and byte operations of the codec.        *)
(***************************************************************************)
Pow2(n) == 2 ^ n

\* Python's a | b on non-negative integers, bit by bit
RECURSIVE OrBits(_, _)
OrBits(a, b) ==
    IF a = 0 THEN b
    ELSE IF b = 0 THEN a
    ELSE (IF (a % 2 = 1) \/ (b % 2 = 1) THEN 1 ELSE 0) + 2 * OrBits(a \div 2, b \div 2)

\* a | b; each operand is evaluated once, whatever expression it is
BitOr(a, b) == CHOOSE r \in { OrBits(x, y) : x \in { a }, y \in { b } } : TRUE

\* Python's a & b on non-negative integers, bit by bit
RECURSIVE AndBits(_, _)
AndBits(a, b) ==
    IF a = 0 \/ b = 0 THEN 0
    ELSE (IF (a % 2 = 1) /\ (b % 2 = 1) THEN 1 ELSE 0) + 2 * AndBits(a \div 2, b \div 2)

\* a & b; each operand is evaluated once, whatever expression it is
BitAnd(a, b) == CHOOSE r \in { AndBits(x, y) : x \in { a }, y \in { b } } : TRUE

\* bool used as an int (True << n)
BoolInt(b) == IF b THEN 1 ELSE 0

\* big-endian bytes of an unsigned integer
BytesBE2(v) == << v \div 256, v % 256 >>
BytesBE4(v) == << v \div 16777216, (v \div 65536) % 256, (v \div 256) % 256, v % 256 >>
FromBE2(s) == s[1] * 256 + s[2]
FromBE4(s) == ((s[1] * 256 + s[2]) * 256 + s[3]) * 256 + s[4]

(***************************************************************************)
(* CalculatorHeader.  A header is a record of the nine attributes the      *)
(* constructor sets; an operation that can raise returns                   *)
(* [ok, h, err] (constructor, unpack) or [ok, bytes, err] (pack).          *)
(***************************************************************************)
NoHeader ==
    [unix_time_stamp |-> 0, total_length |-> 0, reserved |-> 0,
     cache_result |-> FALSE, show_steps |-> FALSE, is_request |-> FALSE,
     status_code |-> 0, cache_control |-> 0, data |-> << >>]

Raised(e) == [ok |-> FALSE, h |-> NoHeader, err |-> e]
Made(h) == [ok |-> TRUE, h |-> h, err |-> ""]

\* NormCacheControl that warns and leaves the value as given
NormCacheControlKept(cache_result, cache_control) == cache_control

\* lines 123-131: the cache_control / cache_result normalisation
NormCacheControl(cache_result, cache_control) ==
    IF cache_control # 0 /\ ~cache_result THEN 0 ELSE cache_control

NormCacheResult(cache_result, is_request, cache_control) ==
    IF cache_control # 0 /\ ~cache_result THEN cache_result
    ELSE IF (~is_request) /\ cache_control = 0 /\ cache_result THEN FALSE
    ELSE cache_result

\* CalculatorHeader that replaces a declared total_length in range by the
\* length of what it was given
CalculatorHeaderRecounting(unix_time_stamp, total_length, reserved, cache_result, show_steps, is_request, status_code, cache_control, data) ==
    LET tl == IF total_length = << >> THEN HEADER_MIN_LENGTH + Len(data)
              ELSE total_length[1]
    IN  IF ~(HEADER_MIN_LENGTH <= tl /\ tl <= HEADER_MAX_LENGTH)
        THEN Raised("ValueError")
        ELSE Made([unix_time_stamp |-> unix_time_stamp,
                   total_length |-> HEADER_MIN_LENGTH + Len(data),
                   reserved |-> reserved,
                   cache_result |-> NormCacheResult(cache_result, is_request, cache_control),
                   show_steps |-> show_steps,
                   is_request |-> is_request,
                   status_code |-> status_code,
                   cache_control |-> NormCacheControl(cache_result, cache_control),
                   data |-> data])

\* __init__; total_length is << >> for None and <<n>> for an explicit n
CalculatorHeader(unix_time_stamp, total_length, reserved, cache_result, show_steps, is_request, status_code, cache_control, data) ==
    LET tl == IF total_length = << >> THEN HEADER_MIN_LENGTH + Len(data)
              ELSE total_length[1]
    IN  IF ~(HEADER_MIN_LENGTH <= tl /\ tl <= HEADER_MAX_LENGTH)
        THEN Raised("ValueError")
        ELSE IF Len(data) > HEADER_MAX_DATA_LENGTH
        THEN Raised("ValueError")
        ELSE Made([unix_time_stamp |-> unix_time_stamp,
                   total_length |-> tl,
                   reserved |-> reserved,
                   cache_result |-> NormCacheResult(cache_result, is_request, cache_control),
                   show_steps |-> show_steps,
                   is_request |-> is_request,
                   status_code |-> status_code,
                   cache_control |-> NormCacheControl(cache_result, cache_control),
                   data |-> data])

pack_flags(reserved, cache_result, show_steps, is_request, status_code) ==
    BitOr(BitOr(BitOr(BitOr(reserved * Pow2(13), BoolInt(cache_result) * Pow2(12)),
                      BoolInt(show_steps) * Pow2(11)),
                BoolInt(is_request) * Pow2(10)),
          status_code)

\* <<reserved, cache_result, show_steps, is_request, status_code>>
unpack_flags(flags) ==
    << BitAnd(flags \div Pow2(13), Pow2(3) - 1),
       BitAnd(flags, Pow2(12)) # 0,
       BitAnd(flags, Pow2(11)) # 0,
       BitAnd(flags, Pow2(10)) # 0,
       BitAnd(flags, Pow2(10) - 1) >>

\* struct.pack('!LHHHxx', a, b, c, d): struct.error when a value is out of range
StructPack(a, b, c, d) ==
    IF a < 0 \/ (a \div 65536) > MaxH \/ b < 0 \/ b > MaxH \/ c < 0 \/ c > MaxH \/ d < 0 \/ d > MaxH
    THEN [ok |-> FALSE, bytes |-> << >>, err |-> "struct.error"]
    ELSE [ok |-> TRUE,
          bytes |-> BytesBE4(a) \o BytesBE2(b) \o BytesBE2(c) \o BytesBE2(d) \o << 0, 0 >>,
          err |-> ""]

pack(h) ==
    LET p == StructPack(h.unix_time_stamp, h.total_length,
                        pack_flags(h.reserved, h.cache_result, h.show_steps,
                                   h.is_request, h.status_code),
                        h.cache_control)
    IN  IF p.ok THEN [p EXCEPT !.bytes = p.bytes \o h.data] ELSE p

\* unpack that keeps only as much payload as the declared total length covers
unpackDeclared(bytes) ==
    IF Len(bytes) < HEADER_MIN_LENGTH THEN Raised("ValueError")
    ELSE LET unix_time_stamp == FromBE4(SubSeq(bytes, 1, 4))
             total_length == FromBE2(SubSeq(bytes, 5, 6))
             flags == FromBE2(SubSeq(bytes, 7, 8))
             cache_control == FromBE2(SubSeq(bytes, 9, 10))
             f == unpack_flags(flags)
             last == IF total_length < Len(bytes) THEN total_length ELSE Len(bytes)
         IN  CalculatorHeader(unix_time_stamp, << total_length >>, f[1], f[2], f[3], f[4],
                              f[5], cache_control,
                              SubSeq(bytes, HEADER_MIN_LENGTH + 1, last))

\* unpack whose length test lets an input one byte short of a header through
unpackOneShort(bytes) ==
    IF Len(bytes) < HEADER_MIN_LENGTH - 1 THEN Raised("ValueError")
    ELSE LET unix_time_stamp == FromBE4(SubSeq(bytes, 1, 4))
             total_length == FromBE2(SubSeq(bytes, 5, 6))
             flags == FromBE2(SubSeq(bytes, 7, 8))
             cache_control == FromBE2(SubSeq(bytes, 9, 10))
             f == unpack_flags(flags)
         IN  CalculatorHeader(unix_time_stamp, << total_length >>, f[1], f[2], f[3], f[4],
                              f[5], cache_control,
                              SubSeq(bytes, HEADER_MIN_LENGTH + 1, Len(bytes)))

unpack(bytes) ==
    IF Len(bytes) < HEADER_MIN_LENGTH THEN Raised("ValueError")
    ELSE LET unix_time_stamp == FromBE4(SubSeq(bytes, 1, 4))
             total_length == FromBE2(SubSeq(bytes, 5, 6))
             flags == FromBE2(SubSeq(bytes, 7, 8))
             cache_control == FromBE2(SubSeq(bytes, 9, 10))
             f == unpack_flags(flags)
         IN  CalculatorHeader(unix_time_stamp, << total_length >>, f[1], f[2], f[3], f[4],
                              f[5], cache_control,
                              SubSeq(bytes, HEADER_MIN_LENGTH + 1, Len(bytes)))

from_request(t, data, show_steps, cache_result, cache_control) ==
    CalculatorHeader(t, << >>, 0, cache_result, show_steps, TRUE, 0, cache_control, data)

from_response(t, data, status_code, show_steps, cache_result, cache_control) ==
    CalculatorHeader(t, << >>, 0, cache_result, show_steps, FALSE, status_code,
                     cache_control, data)

from_error(t, error, status_code, cache_result, cache_control) ==
    from_response(t, error, status_code, FALSE, cache_result, cache_control)

(***************************************************************************)
(* The proxy.                                                              *)
(***************************************************************************)
Workers == 1 .. NumWorkers

\* payloads (pickled expressions) the clients send: opaque bytes to the proxy
Payloads == { << 1 >>, << 2 >> }
\* what the clients ask for, <<payload, show_steps, cache flag, cache_control>>
Asked ==
    { << << 1 >>, FALSE, TRUE, INDEFINITE >>, << << 1 >>, FALSE, TRUE, 200 >>,
      << << 1 >>, FALSE, TRUE, 0 >>, << << 1 >>, FALSE, FALSE, INDEFINITE >>,
      << << 1 >>, TRUE, TRUE, INDEFINITE >>, << << 2 >>, FALSE, TRUE, INDEFINITE >> }
\* seconds the clock advances in one step
TickSteps == { 70000 }
\* what a responder chooses in a response, <<cache flag, cache_control, age>>;
\* the age is that of the response when the proxy reads it: the responder
\* stamps it with its own clock, which may be ahead of the proxy's
Answers ==
    { << FALSE, 0, 0 - 150 >>, << TRUE, 0, 0 >>,
      << TRUE, 100, 50 >>, << TRUE, 100, 150 >>,
      << TRUE, INDEFINITE, 0 >>, << TRUE, INDEFINITE, 0 - 150 >> }
\* the error responses of the server, <<status, age>>: the 400 of
\* process_request (server.py 70-71) and the 500 of client_handler (147-150),
\* both marked CACHE_POLICY, CACHE_CONTROL, stamped with the server's clock
ErrorAnswers == { << STATUS_CLIENT_ERROR, 0 >>, << STATUS_SERVER_ERROR, 0 - 150 >> }
\* the same of responders whose clients overlap
OverlapAnswers == { << FALSE, 0, 0 >>, << TRUE, INDEFINITE, 0 >> }

VARIABLES
    overlap,      \* TRUE: every worker serves a client, at the same time;
                  \* FALSE: one client is connected, served by worker 1
    cache,        \* proxy.py:8   dict (data, show_steps) -> CalculatorHeader
    now,          \* int(time.time())
    ticks,        \* clock advances so far
    accepted,     \* messages received from clients so far
    pc,           \* where each worker is in client_handler / process_request
    request,      \* the request a worker is processing
    was_stale,    \* process_request's local was_stale
    result,       \* what process_request returned or raised
    sent,         \* responses a worker sent to its client for the current message
    contacts,     \* upstream connection attempts a worker made for the current message
    interfered,   \* another worker used the key while this one was between its
                  \* read of the entry and its store
    c_pc,         \* codec run: how far a header has come (constructed, packed, ...)
    c_args,       \* codec run: the arguments given to the constructor
    c_hdr,        \* codec run: the constructed header
    c_wire,       \* codec run: the bytes pack returned, or the bytes received
    c_out,        \* codec run: the header unpack returned
    c_seen,       \* codec run: what the client's process_response did with it
    e_pc,         \* evaluator run: before or after the call of calculate
    e_expr,       \* evaluator run: the expression given to calculate
    e_value,      \* evaluator run: the value calculate returned
    e_steps,      \* evaluator run: the step list calculate returned
    e_err,        \* evaluator run: the exception calculate raised
    e_request,    \* evaluator run: the flags of the request the server processes
    e_response,   \* evaluator run: what process_request returned or raised
    s_pc,         \* rendering run: before or after the call of stringify
    s_expr,       \* rendering run: the expression given to stringify
    s_brackets,   \* rendering run: the add_brackets argument
    s_once,       \* rendering run: what stringify returned or raised
    s_twice,      \* rendering run: the bracket pass applied to its own output
    d_pc,         \* default-list run: off, or calls of calculate(e) being made
    d_expr,       \* default-list run: the expression the calls are given
    d_default,    \* server.py:12  the list object that is the default of steps
    d_returned    \* default-list run: what each call returned, as it returned

proxyVars == << overlap, cache, now, ticks, accepted, pc, request, was_stale, result,
                sent, contacts, interfered >>
codecVars == << c_pc, c_args, c_hdr, c_wire, c_out, c_seen >>
evalVars == << e_pc, e_expr, e_value, e_steps, e_err, e_request, e_response >>
strVars == << s_pc, s_expr, s_brackets, s_once, s_twice >>
callVars == << d_pc, d_expr, d_default, d_returned >>
vars == << proxyVars, codecVars, evalVars, strVars, callVars >>

\* a remaining time: math.inf or an integer
Inf == [inf |-> TRUE, val |-> 0]
Fin(v) == [inf |-> FALSE, val |-> v]
Positive(r) == r.inf \/ r.val > 0

\* Remaining without the INDEFINITE sentinel
RemainingFinite(cache_control, age) == Fin(cache_control - age)

\* lines 33-36 and 65-68: cc - age with INDEFINITE read as math.inf
Remaining(cache_control, age) ==
    IF cache_control # INDEFINITE THEN Fin(cache_control - age) ELSE Inf

\* CacheKey without the show_steps component
CacheKeyNoSteps(req) == << req.data, FALSE >>

\* lines 29, 30, 71: the key of the cache dict
CacheKey(req) == << req.data, req.show_steps >>

\* the constructor arguments of a header that was never constructed
NoArgs ==
    [unix_time_stamp |-> 0, total_length |-> << >>, reserved |-> 0,
     cache_result |-> FALSE, show_steps |-> FALSE, is_request |-> FALSE,
     status_code |-> 0, cache_control |-> 0, data |-> << >>]

NoResult ==
    [kind |-> "none", response |-> NoHeader, server_time_remaining |-> Fin(0),
     client_time_remaining |-> Fin(0), cache_hit |-> FALSE, was_stale |-> FALSE,
     cached |-> FALSE, err |-> ""]

\* Returned that reports every response as stored
ReturnedAsStored(response, srv, cli, hit, stale, cached) ==
    [kind |-> "ok", response |-> response, server_time_remaining |-> srv,
     client_time_remaining |-> cli, cache_hit |-> hit, was_stale |-> stale,
     cached |-> TRUE, err |-> ""]

Returned(response, srv, cli, hit, stale, cached) ==
    [kind |-> "ok", response |-> response, server_time_remaining |-> srv,
     client_time_remaining |-> cli, cache_hit |-> hit, was_stale |-> stale,
     cached |-> cached, err |-> ""]

Raises(e) == [NoResult EXCEPT !.kind = "error", !.err = e]

\* Age without the subtraction of the entry's timestamp
AgeNoStamp(current_time, unix_time_stamp) == current_time

\* lines 32 and 64
Age(current_time, unix_time_stamp) == current_time - unix_time_stamp

\* UseCache without the test of the request's cache_control
UseCacheAlways(req, c) == CacheKey(req) \in DOMAIN c

\* line 29: the entry is consulted only when present and the request allows it
UseCache(req, c) == (CacheKey(req) \in DOMAIN c) /\ (req.cache_control # 0)

\* line 38
Fresh(server_time_remaining, client_time_remaining) ==
    Positive(server_time_remaining) /\ Positive(client_time_remaining)

\* ShouldStore without the test of the response's cache_result
ShouldStoreAnyResponse(req, response, server_time_remaining, client_time_remaining) ==
    req.cache_result
        /\ (Positive(server_time_remaining) /\ Positive(client_time_remaining))

\* ShouldStore without the test of the two remainders
ShouldStoreExpired(req, response, server_time_remaining, client_time_remaining) ==
    req.cache_result /\ response.cache_result

\* ShouldStore that keeps error responses out of the cache
ShouldStoreOkOnly(req, response, server_time_remaining, client_time_remaining) ==
    req.cache_result /\ response.cache_result /\ response.status_code = STATUS_OK
        /\ (Positive(server_time_remaining) /\ Positive(client_time_remaining))

\* line 70
ShouldStore(req, response, server_time_remaining, client_time_remaining) ==
    req.cache_result /\ response.cache_result
        /\ (Positive(server_time_remaining) /\ Positive(client_time_remaining))

\* Store that forgets the assignment
StoreNothing(c, key, response) == c

\* Store that rebinds the dict to the new entry alone
StoreAlone(c, key, response) == (key :> response)

\* line 71: cache[key] = response
Store(c, key, response) == (key :> response) @@ c

\* the pickled result the responder computes for a request: it depends on the
\* expression, on whether steps were asked for, and on the status
UpstreamData(req, status_code) ==
    << req.data[1], BoolInt(req.show_steps), status_code \div 100 >>

\* the pickled exception of an error response
ErrorData(e) == << 255 >>

\* the bytes a responder can put on the wire for the request it received at
\* time t: any flags and cache_control, stamped with its own clock, or too few
\* bytes to hold a header
UpstreamReplies(req, t) ==
    { StructPack(t - a[3], HEADER_MIN_LENGTH + 3,
                 pack_flags(0, a[1], req.show_steps, FALSE, STATUS_OK), a[2]).bytes
          \o UpstreamData(req, STATUS_OK) :
        a \in { b \in Answers : b[3] <= t } }
    \cup { pack(from_error(t - a[2], UpstreamData(req, a[1]), a[1],
                            CACHE_POLICY, CACHE_CONTROL).h).bytes : a \in ErrorAnswers }
    \cup { pack(from_request(t, req.data, req.show_steps, FALSE, 0).h).bytes }
    \cup { << 0, 0, 0 >> }

\* the bytes a client can send at time t: a packed request, a packed response,
\* or too few bytes to hold a header
ClientMessages(t) ==
    { pack(from_request(t, a[1], a[2], a[3], a[4]).h).bytes : a \in Asked }
    \cup { pack(from_response(t, << 1 >>, STATUS_OK, FALSE, FALSE, 0).h).bytes }
    \cup { << 0, 0, 0 >> }

\* the same for a request of clients whose connections overlap in time
OverlapReplies(req, t) ==
    { StructPack(t - a[3], HEADER_MIN_LENGTH + 3,
                 pack_flags(0, a[1], req.show_steps, FALSE, STATUS_OK), a[2]).bytes
          \o UpstreamData(req, STATUS_OK) :
        a \in { b \in OverlapAnswers : b[3] <= t } }

\* the requests of clients whose connections overlap in time
OverlapMessages(t) ==
    { pack(from_request(t, d, FALSE, TRUE, cc).h).bytes :
        d \in Payloads, cc \in { INDEFINITE } }

\* a worker between its read of the cache entry and its store
InSection(w) == pc[w] \in { "connect", "recv" }

\* the workers other than w that are in their section on the key of w's request
Disturbed(w) ==
    { v \in Workers \ { w } :
        InSection(v)
        /\ request[v].data = request[w].data
        /\ request[v].show_steps = request[w].show_steps }

\* Runnable with one lock held from the lookup to the end of the round trip
RunnableUnderLock(w) == \A v \in Workers \ { w } : ~InSection(v)

\* lines 100-102: each connection has a thread of its own, and neither
\* client_handler nor process_request waits for anything another thread holds
Runnable(w) == TRUE

(***************************************************************************)
(* Expressions (calculator.py).  A node is a record with its class in       *)
(* kind; a number that is not wrapped in an Expression has kind "Real".     *)
(* The reals of the source are modelled by integers.                        *)
(***************************************************************************)
Real(v) == [kind |-> "Real", value |-> v]
Constant(value) == [kind |-> "Constant", value |-> value]
NamedConstant(name, value) == [kind |-> "NamedConstant", name |-> name, value |-> value]

\* type_fallback: an Expression as it is, a number as a Constant
type_fallback(var) == IF var.kind = "Real" THEN Constant(var.value) ELSE var

BinaryExpr(left_operand, operator, right_operand) ==
    [kind |-> "BinaryExpr", left_operand |-> type_fallback(left_operand),
     operator |-> operator, right_operand |-> type_fallback(right_operand)]

UnaryExpr(operator, operand) ==
    [kind |-> "UnaryExpr", operator |-> operator, operand |-> type_fallback(operand)]

FunctionCallExpr(function, args) ==
    [kind |-> "FunctionCallExpr", function |-> function,
     args |-> [i \in 1 .. Len(args) |-> type_fallback(args[i])]]

\* the result of an operator's function: a number, or an exception
Value(v) == [ok |-> TRUE, value |-> v, err |-> ""]
Failure(e) == [ok |-> FALSE, value |-> 0, err |-> e]

\* Python's a % b: the result has the sign of b
PyMod(a, b) ==
    IF b = 0 THEN Failure("ZeroDivisionError")
    ELSE IF b > 0 THEN Value(a % b)
    ELSE Value(0 - ((0 - a) % (0 - b)))

\* BinaryFunction whose subtraction takes its operands in the other order
BinaryFunctionSubReversed(operator, left, right) ==
    CASE operator = "+" -> Value(left + right)
      [] operator = "-" -> Value(right - left)
      [] operator = "*" -> Value(left * right)
      [] operator = "%" -> PyMod(left, right)

\* BINARY_OPERATORS: operator.add, operator.sub, operator.mul, operator.mod
BinaryFunction(operator, left, right) ==
    CASE operator = "+" -> Value(left + right)
      [] operator = "-" -> Value(left - right)
      [] operator = "*" -> Value(left * right)
      [] operator = "%" -> PyMod(left, right)

\* UNARY_OPERATORS: operator.neg, operator.pos
UnaryFunction(operator, operand) ==
    CASE operator = "-" -> Value(0 - operand)
      [] operator = "+" -> Value(operand)

\* FUNCTIONS: max, min (of one or more numbers)
Function(function, args) ==
    LET given == { args[i] : i \in 1 .. Len(args) }
    IN  CASE function = "max" -> Value(CHOOSE m \in given : \A x \in given : m >= x)
          [] function = "min" -> Value(CHOOSE m \in given : \A x \in given : m <= x)

(***************************************************************************)
(* The evaluator (server.py, calculate).                                   *)
(***************************************************************************)
\* what a call of calculate gives: (value, steps), or an exception
Calculated(value, steps) == [ok |-> TRUE, value |-> value, steps |-> steps, err |-> ""]
Thrown(e) == [ok |-> FALSE, value |-> 0, steps |-> << >>, err |-> e]

\* AppendResult that leaves out the node with its operands reduced
AppendConstOnly(steps, reduced, const) == Append(steps, const)

\* AppendResult that leaves out the result Constant
AppendReducedOnly(steps, reduced, const) == Append(steps, reduced)

\* lines 31-33, 39-41, 51-53: the node with its operands reduced, then the result
AppendResult(steps, reduced, const) == Append(Append(steps, reduced), const)

\* s[:-1]
AllButLast(s) == SubSeq(s, 1, Len(s) - 1)

\* RightSnapshot that keeps the left operand as the expression has it
RightSnapshotUnreduced(expr, left, step) ==
    BinaryExpr(expr.left_operand, expr.operator, step)

\* lines 26-27: the expression with a step of its left operand in that
\* operand's place
LeftSnapshot(expr, step) == BinaryExpr(step, expr.operator, expr.right_operand)

\* lines 29-30: the expression with the value of its left operand and a step
\* of its right operand
RightSnapshot(expr, left, step) == BinaryExpr(left, expr.operator, step)

\* CallSnapshot that leaves out the arguments not reduced yet
CallSnapshotShort(expr, args, step) ==
    FunctionCallExpr(expr.function, args \o << step >>)

\* lines 48-49: the call with the values of the arguments reduced so far, a
\* step of the next argument, and the arguments after it
CallSnapshot(expr, args, step) ==
    FunctionCallExpr(expr.function,
        args \o << step >> \o SubSeq(expr.args, Len(args) + 2, Len(expr.args)))

RECURSIVE calculate(_, _)
RECURSIVE CalculateArgs(_, _, _, _)

\* lines 44-50, the loop from argument i on: args are the values of the
\* arguments before i, steps the list so far
CalculateArgs(expr, i, args, steps) ==
    IF i > Len(expr.args) THEN [ok |-> TRUE, args |-> args, steps |-> steps, err |-> ""]
    ELSE LET arg == calculate(expr.args[i], << >>)
             arg_steps == AllButLast(arg.steps)
         IN  IF ~arg.ok THEN [ok |-> FALSE, args |-> args, steps |-> steps, err |-> arg.err]
             ELSE CalculateArgs(expr, i + 1, Append(args, Real(arg.value)),
                      steps \o [k \in 1 .. Len(arg_steps) |->
                                  CallSnapshot(expr, args, arg_steps[k])])

\* calculate(expression, steps): steps is the list the caller passes, the
\* returned list is that list with the steps of this expression appended
calculate(expression, steps) ==
    LET expr == type_fallback(expression)
    IN  CASE expr.kind \in { "Constant", "NamedConstant" } ->
               Calculated(expr.value, steps)
          [] expr.kind = "BinaryExpr" ->
               LET l == calculate(expr.left_operand, << >>)
                   left == Real(l.value)
                   left_steps == AllButLast(l.steps)
                   steps1 == steps \o [k \in 1 .. Len(left_steps) |->
                                 LeftSnapshot(expr, left_steps[k])]
                   r == calculate(expr.right_operand, << >>)
                   right == Real(r.value)
                   right_steps == AllButLast(r.steps)
                   steps2 == steps1 \o [k \in 1 .. Len(right_steps) |->
                                 RightSnapshot(expr, left, right_steps[k])]
                   f == BinaryFunction(expr.operator, l.value, r.value)
               IN  IF ~l.ok THEN Thrown(l.err)
                   ELSE IF ~r.ok THEN Thrown(r.err)
                   ELSE IF ~f.ok THEN Thrown(f.err)
                   ELSE Calculated(f.value,
                            AppendResult(steps2, BinaryExpr(left, expr.operator, right),
                                         Constant(f.value)))
          [] expr.kind = "UnaryExpr" ->
               LET o == calculate(expr.operand, << >>)
                   operand == Real(o.value)
                   operand_steps == AllButLast(o.steps)
                   steps1 == steps \o [k \in 1 .. Len(operand_steps) |->
                                 UnaryExpr(expr.operator, operand_steps[k])]
                   f == UnaryFunction(expr.operator, o.value)
               IN  IF ~o.ok THEN Thrown(o.err)
                   ELSE IF ~f.ok THEN Thrown(f.err)
                   ELSE Calculated(f.value,
                            AppendResult(steps1, UnaryExpr(expr.operator, operand),
                                         Constant(f.value)))
          [] expr.kind = "FunctionCallExpr" ->
               LET a == CalculateArgs(expr, 1, << >>, steps)
                   f == Function(expr.function, [i \in 1 .. Len(a.args) |-> a.args[i].value])
               IN  IF ~a.ok THEN Thrown(a.err)
                   ELSE IF ~f.ok THEN Thrown(f.err)
                   ELSE Calculated(f.value,
                            AppendResult(a.steps, FunctionCallExpr(expr.function, a.args),
                                         Constant(f.value)))
          [] OTHER -> Thrown("TypeError")

\* the content of the list given as steps when the call calculate(expression,
\* steps) ends: the returned list, or, when the call raises, the list with what
\* lines 25-31, 37-39, 47-51 appended to it before the exception
Appended(expression, steps) ==
    LET expr == type_fallback(expression)
        c == calculate(expression, steps)
    IN  IF c.ok THEN c.steps
        ELSE IF expr.kind = "BinaryExpr"
        THEN LET l == calculate(expr.left_operand, << >>)
                 left == Real(l.value)
                 left_steps == AllButLast(l.steps)
                 steps1 == steps \o [k \in 1 .. Len(left_steps) |->
                               LeftSnapshot(expr, left_steps[k])]
                 r == calculate(expr.right_operand, << >>)
                 right == Real(r.value)
                 right_steps == AllButLast(r.steps)
                 steps2 == steps1 \o [k \in 1 .. Len(right_steps) |->
                               RightSnapshot(expr, left, right_steps[k])]
             IN  IF ~l.ok THEN steps
                 ELSE IF ~r.ok THEN steps1
                 ELSE Append(steps2, BinaryExpr(left, expr.operator, right))
        ELSE IF expr.kind = "UnaryExpr"
        THEN LET o == calculate(expr.operand, << >>)
                 operand == Real(o.value)
                 operand_steps == AllButLast(o.steps)
                 steps1 == steps \o [k \in 1 .. Len(operand_steps) |->
                               UnaryExpr(expr.operator, operand_steps[k])]
             IN  IF ~o.ok THEN steps
                 ELSE Append(steps1, UnaryExpr(expr.operator, operand))
        ELSE IF expr.kind = "FunctionCallExpr"
        THEN LET a == CalculateArgs(expr, 1, << >>, steps)
             IN  IF ~a.ok THEN a.steps
                 ELSE Append(a.steps, FunctionCallExpr(expr.function, a.args))
        ELSE steps

(***************************************************************************)
(* Rendering (calculator.py, __str__, __str_brackets__ and stringify).     *)
(* A string is the sequence of its characters; positions count from 0 as   *)
(* in the source.                                                          *)
(***************************************************************************)
Digits == << "0", "1", "2", "3", "4", "5", "6", "7", "8", "9" >>

RECURSIVE StrNat(_)
\* the decimal digits of a natural number
StrNat(n) ==
    IF n < 10 THEN << Digits[n + 1] >>
    ELSE StrNat(n \div 10) \o << Digits[(n % 10) + 1] >>

\* str(value) of an int
StrReal(v) == IF v < 0 THEN << "-" >> \o StrNat(0 - v) ELSE StrNat(v)

\* a name of LongNameLength characters X
LongNameLength == 32750
LongName == "X..X"

\* the characters of the names in use
Spelling(name) ==
    CASE name = "TAU" -> << "T", "A", "U" >>
      [] name = LongName -> [i \in 1 .. LongNameLength |-> "X"]
      [] name = "max" -> << "m", "a", "x" >>
      [] name = "min" -> << "m", "i", "n" >>

RECURSIVE Join(_)
\* ", ".join(parts)
Join(parts) ==
    IF parts = << >> THEN << >>
    ELSE IF Len(parts) = 1 THEN parts[1]
    ELSE parts[1] \o << ",", " " >> \o Join(Tail(parts))

RECURSIVE str(_)
\* __str__ of the Expression classes
str(expr) ==
    CASE expr.kind = "Constant" -> StrReal(expr.value)
      [] expr.kind = "NamedConstant" -> Spelling(expr.name)
      [] expr.kind = "BinaryExpr" ->
           LET left == IF expr.left_operand.kind = "BinaryExpr"
                       THEN << "(" >> \o str(expr.left_operand) \o << ")" >>
                       ELSE str(expr.left_operand)
               right == IF expr.right_operand.kind = "BinaryExpr"
                        THEN << "(" >> \o str(expr.right_operand) \o << ")" >>
                        ELSE str(expr.right_operand)
           IN  left \o << " ", expr.operator, " " >> \o right
      [] expr.kind = "UnaryExpr" -> << expr.operator >> \o str(expr.operand)
      [] expr.kind = "FunctionCallExpr" ->
           Spelling(expr.function) \o << "(" >>
               \o Join([i \in 1 .. Len(expr.args) |-> str(expr.args[i])]) \o << ")" >>

RECURSIVE str_brackets(_)
\* __str_brackets__(True) of the Expression classes
str_brackets(expr) ==
    CASE expr.kind \in { "Constant", "NamedConstant" } -> str(expr)
      [] expr.kind = "BinaryExpr" ->
           << "(" >> \o str_brackets(expr.left_operand) \o << " ", expr.operator, " " >>
               \o str_brackets(expr.right_operand) \o << ")" >>
      [] expr.kind = "UnaryExpr" ->
           << expr.operator, "(" >> \o str_brackets(expr.operand) \o << ")" >>
      [] expr.kind = "FunctionCallExpr" ->
           Spelling(expr.function) \o << "(" >>
               \o Join([i \in 1 .. Len(expr.args) |-> str_brackets(expr.args[i])])
               \o << ")" >>

\* s[a:b] for 0 <= a, 0 <= b
Slice(s, a, b) == SubSeq(s, a + 1, IF b < Len(s) THEN b ELSE Len(s))

\* what the bracket pass gives: a string, or a ValueError
Text(t) == [ok |-> TRUE, text |-> t, err |-> ""]
Unmatched == [ok |-> FALSE, text |-> << >>, err |-> "ValueError"]

\* stringify, lines 293-298: the body of the loop at position i; m holds the
\* stack and the (opening, closing) pairs in the order the dict received them
Scan(expr_s, i, m) ==
    IF expr_s[i + 1] = "("
    THEN [m EXCEPT !.stack = Append(m.stack, i)]
    ELSE IF expr_s[i + 1] = ")"
         THEN IF m.stack = << >> THEN [m EXCEPT !.ok = FALSE]
              ELSE [m EXCEPT !.stack = SubSeq(m.stack, 1, Len(m.stack) - 1),
                             !.pairs = Append(m.pairs, << m.stack[Len(m.stack)], i >>)]
    ELSE m

RECURSIVE ScanFrom(_, _, _, _)
\* stringify, lines 292-298: the loop over the positions lo .. hi - 1, the
\* first half of them and then the second; it ends at the first closing
\* bracket that closes nothing
ScanFrom(expr_s, lo, hi, m) ==
    IF lo >= hi THEN m
    ELSE IF hi = lo + 1 THEN Scan(expr_s, lo, m)
    ELSE LET mid == (lo + hi) \div 2
             first == ScanFrom(expr_s, lo, mid, m)
         IN  IF ~first.ok THEN first ELSE ScanFrom(expr_s, mid, hi, first)

\* stringify, lines 290-302: the pairs of matching brackets, or the ValueError
\* of a bracket without its partner
Matchings(expr_s) ==
    LET m == ScanFrom(expr_s, 0, Len(expr_s), [ok |-> TRUE, stack |-> << >>, pairs |-> << >>])
    IN  IF m.ok /\ m.stack # << >> THEN [m EXCEPT !.ok = FALSE] ELSE m

\* left in matchings and matchings[left] = right
Matches(matchings, left, right) ==
    \E k \in 1 .. Len(matchings) : matchings[k] = << left, right >>

\* stringify, line 304
CutOut(expr_s, left, right) ==
    Slice(expr_s, 0, left) \o Slice(expr_s, left + 1, right - 1)
        \o Slice(expr_s, right, Len(expr_s))

RECURSIVE RemoveRedundant(_, _, _)
\* stringify, lines 303-304: the loop over matchings.copy().items() from the
\* k-th pair on
RemoveRedundant(expr_s, matchings, k) ==
    IF k > Len(matchings) THEN expr_s
    ELSE LET left == matchings[k][1]
             right == matchings[k][2]
         IN  RemoveRedundant(IF Matches(matchings, left + 1, right - 1)
                             THEN CutOut(expr_s, left, right)
                             ELSE expr_s,
                             matchings, k + 1)

\* stringify, lines 289-307: the pass that removes unnecessary brackets
RemoveBrackets(expr_s) ==
    LET m == Matchings(expr_s)
        cut == RemoveRedundant(expr_s, m.pairs, 1)
    IN  IF ~m.ok THEN Unmatched
        ELSE IF Matches(m.pairs, 0, Len(cut) - 1) THEN Text(SubSeq(cut, 2, Len(cut) - 1))
        ELSE Text(cut)

\* stringify(expression, add_brackets)
stringify(expression, add_brackets) ==
    LET expr == type_fallback(expression)
    IN  RemoveBrackets(IF add_brackets THEN str_brackets(expr) ELSE str(expr))

(***************************************************************************)
(* The server's process_request (server.py) and the pickled data of its    *)
(* responses.                                                              *)
(***************************************************************************)
\* ord(ch) of the characters a rendering is made of
Ord(ch) ==
    CASE ch = "X" -> 88
      [] ch = " " -> 32
      [] ch = "%" -> 37
      [] ch = "(" -> 40
      [] ch = ")" -> 41
      [] ch = "*" -> 42
      [] ch = "+" -> 43
      [] ch = "," -> 44
      [] ch = "-" -> 45
      [] ch = "A" -> 65
      [] ch = "T" -> 84
      [] ch = "U" -> 85
      [] ch = "a" -> 97
      [] ch = "i" -> 105
      [] ch = "m" -> 109
      [] ch = "n" -> 110
      [] ch = "x" -> 120
      [] OTHER -> 47 + CHOOSE d \in 1 .. 10 : Digits[d] = ch

RECURSIVE BytesLE(_, _)
\* the k low bytes of v in two's complement, the least significant first
BytesLE(v, k) == IF k = 0 THEN << >> ELSE << v % 256 >> \o BytesLE(v \div 256, k - 1)

\* pickle, protocol 4, of an int of 32 bits: BININT1, BININT2 or BININT
PickleInt(v) ==
    IF 0 <= v /\ v <= 255 THEN << 75, v >>
    ELSE IF 0 <= v /\ v <= 65535 THEN << 77 >> \o BytesLE(v, 2)
    ELSE << 74 >> \o BytesLE(v, 4)

\* pickle, protocol 4, of a str: SHORT_BINUNICODE or BINUNICODE, then MEMOIZE
PickleStr(t) ==
    (IF Len(t) <= 255 THEN << 140, Len(t) >> ELSE << 88 >> \o BytesLE(Len(t), 4))
        \o [i \in 1 .. Len(t) |-> Ord(t[i])] \o << 148 >>

RECURSIVE PickleItems(_)
PickleItems(ts) ==
    IF ts = << >> THEN << >> ELSE PickleStr(ts[1]) \o PickleItems(Tail(ts))

\* pickle, protocol 4, of a list of fewer than 1000 str: EMPTY_LIST, MEMOIZE and
\* the items with APPEND or between MARK and APPENDS
PickleList(ts) ==
    << 93, 148 >>
        \o (IF ts = << >> THEN << >>
            ELSE IF Len(ts) = 1 THEN PickleStr(ts[1]) \o << 97 >>
            ELSE << 40 >> \o PickleItems(ts) \o << 101 >>)

\* pickle.dumps((value, steps)): PROTO 4, one FRAME, the int, the list, TUPLE2,
\* MEMOIZE and STOP (pickle starts a second frame only after 65536 bytes, more
\* than a header can carry)
pickle_dumps(value, steps) ==
    LET body == PickleInt(value) \o PickleList(steps) \o << 134, 148, 46 >>
    IN  << 128, 4, 149 >> \o BytesLE(Len(body), 8) \o body

\* pickle.dumps(error): bytes that tell the exceptions apart; their number
\* (some tens for the exceptions raised here) plays no part
pickle_dumps_error(e) ==
    << 255, CASE e = "ValueError" -> 1
              [] e = "TypeError" -> 2
              [] e = "ZeroDivisionError" -> 3
              [] OTHER -> 0 >>

from_result(t, value, steps, cache_result, cache_control) ==
    from_response(t, pickle_dumps(value, steps), STATUS_OK, steps # << >>,
                  cache_result, cache_control)

\* data_to_expression that hands on whatever was unpickled
data_to_expressionAny(data) == Value(data)

\* api.py, data_to_expression: the unpickled payload when it is an Expression,
\* else a ValueError
data_to_expression(data) ==
    IF data.kind \in { "Constant", "NamedConstant", "BinaryExpr", "UnaryExpr",
                       "FunctionCallExpr" }
    THEN Value(data)
    ELSE Failure("ValueError")

\* process_request has not returned
NoResponse == [ok |-> FALSE, h |-> NoHeader, err |-> "nothing yet"]

\* no rendering run
StrOff ==
    /\ s_pc = "off"
    /\ s_expr = Real(0)
    /\ s_brackets = FALSE
    /\ s_once = Unmatched
    /\ s_twice = Unmatched

\* no default-list run: the default of steps is the empty list made when the
\* def statement of line 12 ran
CallsOff ==
    /\ d_pc = "off"
    /\ d_expr = Real(0)
    /\ d_default = << >>
    /\ d_returned = << >>

\* no evaluator run
EvalOff ==
    /\ e_pc = "off"
    /\ e_expr = Real(0)
    /\ e_value = 0
    /\ e_steps = << >>
    /\ e_err = ""
    /\ e_request = [is_request |-> TRUE, show_steps |-> FALSE]
    /\ e_response = NoResponse

\* no codec run
CodecOff ==
    /\ c_pc = "off"
    /\ c_args = NoArgs
    /\ c_hdr = NoHeader
    /\ c_wire = << >>
    /\ c_out = NoHeader
    /\ c_seen = "nothing"

\* the proxy as it starts: an empty cache and idle workers
ProxyInit ==
    /\ cache = << >>
    /\ now = StartTime
    /\ ticks = 0
    /\ accepted = 0
    /\ pc = [w \in Workers |-> "idle"]
    /\ request = [w \in Workers |-> NoHeader]
    /\ was_stale = [w \in Workers |-> FALSE]
    /\ result = [w \in Workers |-> NoResult]
    /\ sent = [w \in Workers |-> << >>]
    /\ contacts = [w \in Workers |-> 0]
    /\ interfered = [w \in Workers |-> FALSE]

Init ==
    /\ overlap \in BOOLEAN
    /\ ProxyInit
    /\ CallsOff
    /\ CodecOff
    /\ EvalOff
    /\ StrOff

\* time passes between two messages; the time a round trip takes is the age
\* (Answers) of the reply when it is read
Tick ==
    /\ ticks < MaxTicks
    /\ \A w \in Workers : pc[w] = "idle"
    /\ \E d \in TickSteps : now' = now + d
    /\ ticks' = ticks + 1
    /\ UNCHANGED << overlap, cache, accepted, pc, request, was_stale, result, sent, contacts,
                    interfered >>
    /\ UNCHANGED << codecVars, evalVars, strVars, callVars >>

\* client_handler, lines 122-132: a message arrives (the recv call itself is
\* left open in the source) and is unpacked
Receive(w) ==
    /\ pc[w] = "idle"
    /\ Runnable(w)
    /\ accepted < MaxRequests
    /\ overlap \/ w = 1
    /\ accepted' = accepted + 1
    /\ \E bytes \in (IF overlap THEN OverlapMessages(now) ELSE ClientMessages(now)) :
        \E u \in { unpack(bytes) } :
              IF u.ok
              THEN /\ request' = [request EXCEPT ![w] = u.h]
                   /\ result' = [result EXCEPT ![w] = NoResult]
                   /\ pc' = [pc EXCEPT ![w] = "process"]
              ELSE /\ request' = [request EXCEPT ![w] = NoHeader]
                   /\ result' = [result EXCEPT ![w] = Raises("CalculatorClientError")]
                   /\ pc' = [pc EXCEPT ![w] = "reply"]
    /\ UNCHANGED << overlap, cache, now, ticks, was_stale, sent, contacts, interfered >>
    /\ UNCHANGED << codecVars, evalVars, strVars, callVars >>

\* process_request, lines 20-41: the type check and the cache lookup
Lookup(w) ==
    /\ pc[w] = "process"
    /\ Runnable(w)
    /\ LET req == request[w]
       IN  IF ~req.is_request
           THEN /\ result' = [result EXCEPT ![w] = Raises("TypeError")]
                /\ pc' = [pc EXCEPT ![w] = "reply"]
                /\ UNCHANGED << was_stale, interfered >>
           ELSE /\ interfered' =
                      [v \in Workers |-> interfered[v] \/ (v \in Disturbed(w))]
                /\ IF UseCache(req, cache)
                   THEN LET response == cache[CacheKey(req)]
                            age == Age(now, response.unix_time_stamp)
                            server_time_remaining == Remaining(response.cache_control, age)
                            client_time_remaining == Remaining(req.cache_control, age)
                        IN  IF Fresh(server_time_remaining, client_time_remaining)
                            THEN /\ result' = [result EXCEPT ![w] =
                                        Returned(response, server_time_remaining,
                                                 client_time_remaining, TRUE, FALSE, FALSE)]
                                 /\ pc' = [pc EXCEPT ![w] = "reply"]
                                 /\ UNCHANGED was_stale
                            ELSE /\ was_stale' = [was_stale EXCEPT ![w] = TRUE]
                                 /\ pc' = [pc EXCEPT ![w] = "connect"]
                                 /\ UNCHANGED result
                   ELSE /\ pc' = [pc EXCEPT ![w] = "connect"]
                        /\ UNCHANGED << was_stale, result >>
    /\ UNCHANGED << overlap, cache, now, ticks, accepted, request, sent, contacts >>
    /\ UNCHANGED << codecVars, evalVars, strVars, callVars >>

\* Connect that tries a refused connection a second time
ConnectRetryingOnce(w) ==
    /\ pc[w] = "connect"
    /\ Runnable(w)
    /\ contacts' = [contacts EXCEPT ![w] = contacts[w] + 1]
    /\ \E refused \in BOOLEAN :
          IF refused /\ contacts[w] = 0
          THEN UNCHANGED << pc, result >>
          ELSE IF refused
          THEN /\ result' = [result EXCEPT ![w] = Raises("CalculatorServerError")]
               /\ pc' = [pc EXCEPT ![w] = "reply"]
          ELSE /\ pc' = [pc EXCEPT ![w] = "recv"]
               /\ UNCHANGED result
    /\ UNCHANGED << overlap, cache, now, ticks, accepted, request, was_stale, sent,
                    interfered >>
    /\ UNCHANGED << codecVars, evalVars, strVars, callVars >>

\* process_request, lines 44-50: connect to the responder and forward the request
Connect(w) ==
    /\ pc[w] = "connect"
    /\ Runnable(w)
    /\ contacts' = [contacts EXCEPT ![w] = contacts[w] + 1]
    /\ \E refused \in BOOLEAN :
          IF refused
          THEN /\ result' = [result EXCEPT ![w] = Raises("CalculatorServerError")]
               /\ pc' = [pc EXCEPT ![w] = "reply"]
          ELSE IF pack(request[w]).ok
          THEN /\ pc' = [pc EXCEPT ![w] = "recv"]
               /\ UNCHANGED result
          ELSE /\ result' = [result EXCEPT ![w] = Raises("struct.error")]
               /\ pc' = [pc EXCEPT ![w] = "reply"]
    /\ UNCHANGED << overlap, cache, now, ticks, accepted, request, was_stale, sent,
                    interfered >>
    /\ UNCHANGED << codecVars, evalVars, strVars, callVars >>

\* Recv that drops the entry of the key when the reply cannot be used
RecvEvicting(w) ==
    /\ pc[w] = "recv"
    /\ Runnable(w)
    /\ LET req == request[w]
           evicted == [k \in DOMAIN cache \ { CacheKey(req) } |-> cache[k]]
       IN  \E forwarded \in { unpack(pack(req).bytes).h } :
           \E bytes \in (IF overlap THEN OverlapReplies(forwarded, now)
                          ELSE UpstreamReplies(forwarded, now)) :
           \E u \in { unpack(bytes) } :
                 IF ~u.ok
                 THEN /\ result' = [result EXCEPT ![w] = Raises("CalculatorClientError")]
                      /\ cache' = evicted
                      /\ UNCHANGED interfered
                 ELSE IF u.h.is_request
                 THEN /\ result' = [result EXCEPT ![w] = Raises("TypeError")]
                      /\ cache' = evicted
                      /\ UNCHANGED interfered
                 ELSE LET response == u.h
                          age == Age(now, response.unix_time_stamp)
                          server_time_remaining == Remaining(response.cache_control, age)
                          client_time_remaining == Remaining(req.cache_control, age)
                          cached == ShouldStore(req, response, server_time_remaining,
                                                client_time_remaining)
                      IN  /\ cache' = IF cached THEN Store(cache, CacheKey(req), response)
                                      ELSE cache
                          /\ interfered' =
                                [v \in Workers |->
                                    interfered[v] \/ (cached /\ v \in Disturbed(w))]
                          /\ result' = [result EXCEPT ![w] =
                                Returned(response, server_time_remaining,
                                         client_time_remaining, FALSE, was_stale[w], cached)]
    /\ pc' = [pc EXCEPT ![w] = "reply"]
    /\ UNCHANGED << overlap, now, ticks, accepted, request, was_stale, sent, contacts >>
    /\ UNCHANGED << codecVars, evalVars, strVars, callVars >>

\* process_request, lines 52-74: the reply arrives, is unpacked, and is stored
\* when all sides agree
Recv(w) ==
    /\ pc[w] = "recv"
    /\ Runnable(w)
    /\ LET req == request[w]
       IN  \E forwarded \in { unpack(pack(req).bytes).h } :
           \E bytes \in (IF overlap THEN OverlapReplies(forwarded, now)
                          ELSE UpstreamReplies(forwarded, now)) :
           \E u \in { unpack(bytes) } :
                 IF ~u.ok
                 THEN /\ result' = [result EXCEPT ![w] = Raises("CalculatorClientError")]
                      /\ UNCHANGED << cache, interfered >>
                 ELSE IF u.h.is_request
                 THEN /\ result' = [result EXCEPT ![w] = Raises("TypeError")]
                      /\ UNCHANGED << cache, interfered >>
                 ELSE LET response == u.h
                          age == Age(now, response.unix_time_stamp)
                          server_time_remaining == Remaining(response.cache_control, age)
                          client_time_remaining == Remaining(req.cache_control, age)
                          cached == ShouldStore(req, response, server_time_remaining,
                                                client_time_remaining)
                      IN  /\ cache' = IF cached THEN Store(cache, CacheKey(req), response)
                                      ELSE cache
                          /\ interfered' =
                                [v \in Workers |->
                                    interfered[v] \/ (cached /\ v \in Disturbed(w))]
                          /\ result' = [result EXCEPT ![w] =
                                Returned(response, server_time_remaining,
                                         client_time_remaining, FALSE, was_stale[w], cached)]
    /\ pc' = [pc EXCEPT ![w] = "reply"]
    /\ UNCHANGED << overlap, now, ticks, accepted, request, was_stale, sent, contacts >>
    /\ UNCHANGED << codecVars, evalVars, strVars, callVars >>

\* Reply whose error response is marked cacheable, as the server marks its own
ReplyCacheable(w) ==
    /\ pc[w] = "reply"
    /\ Runnable(w)
    /\ \E out \in { IF result[w].kind = "ok"
                     THEN pack(result[w].response)
                     ELSE pack(from_error(now, ErrorData(result[w].err),
                                          STATUS_SERVER_ERROR, CACHE_POLICY,
                                          CACHE_CONTROL).h) } :
          sent' = [sent EXCEPT ![w] = Append(sent[w], unpack(out.bytes).h)]
    /\ pc' = [pc EXCEPT ![w] = "sent"]
    /\ UNCHANGED << overlap, cache, now, ticks, accepted, request, was_stale, result,
                    contacts, interfered >>
    /\ UNCHANGED << codecVars, evalVars, strVars, callVars >>

\* client_handler, lines 139-162: the response (packed at line 151; the send
\* itself is left open in the source), or the 500 built from the exception at
\* lines 159-162, goes back to the client, which unpacks it
Reply(w) ==
    /\ pc[w] = "reply"
    /\ Runnable(w)
    /\ \E out \in { IF result[w].kind = "ok"
                     THEN pack(result[w].response)
                     ELSE pack(from_error(now, ErrorData(result[w].err),
                                          STATUS_SERVER_ERROR, FALSE, 0).h) } :
          sent' = [sent EXCEPT ![w] = Append(sent[w], unpack(out.bytes).h)]
    /\ pc' = [pc EXCEPT ![w] = "sent"]
    /\ UNCHANGED << overlap, cache, now, ticks, accepted, request, was_stale, result,
                    contacts, interfered >>
    /\ UNCHANGED << codecVars, evalVars, strVars, callVars >>

\* client_handler, line 163 and back to line 119: the locals of the finished
\* message are dropped and the worker waits for the next one
Finish(w) ==
    /\ pc[w] = "sent"
    /\ Runnable(w)
    /\ pc' = [pc EXCEPT ![w] = "idle"]
    /\ request' = [request EXCEPT ![w] = NoHeader]
    /\ result' = [result EXCEPT ![w] = NoResult]
    /\ was_stale' = [was_stale EXCEPT ![w] = FALSE]
    /\ sent' = [sent EXCEPT ![w] = << >>]
    /\ contacts' = [contacts EXCEPT ![w] = 0]
    /\ interfered' = [interfered EXCEPT ![w] = FALSE]
    /\ UNCHANGED << overlap, cache, now, ticks, accepted >>
    /\ UNCHANGED << codecVars, evalVars, strVars, callVars >>

Next ==
    \/ Tick
    \/ \E w \in Workers : Receive(w)
    \/ \E w \in Workers : Lookup(w)
    \/ \E w \in Workers : Connect(w)
    \/ \E w \in Workers : Recv(w)
    \/ \E w \in Workers : Reply(w)
    \/ \E w \in Workers : Finish(w)

Spec == Init /\ [][Next]_vars

\* the proxy when the threads of all workers but worker 1 are scheduled again
\* and again and their peers answer, while worker 1 may stay in a socket call
\* for ever
SpecStalled ==
    /\ Init
    /\ [][Next]_vars
    /\ \A v \in Workers \ { 1 } :
          WF_vars(Lookup(v) \/ Connect(v) \/ Recv(v) \/ Reply(v) \/ Finish(v))

(***************************************************************************)
(* The header codec on its own: a header is constructed from arguments,    *)
(* packed and unpacked again, or bytes are received and unpacked.          *)
(***************************************************************************)
\* arguments of the constructor: the values the fields of the wire format can
\* hold, total_length given or left out (<< >>), in and around its limits
CodecArgs ==
    [unix_time_stamp : { 1000 },
     total_length : { << >>, << 11 >>, << 12 >>, << 13 >>, << 65535 >>, << 65536 >>,
                      << 65537 >> },
     reserved : { 0, 5 },
     cache_result : BOOLEAN,
     show_steps : BOOLEAN,
     is_request : BOOLEAN,
     status_code : { 0, 200, 999 },
     cache_control : { 0, 100, 65535 },
     data : { << >>, << 7 >> }]

\* bytes a peer can send: too few for a header, and headers whose declared
\* total length is not the number of bytes sent
CodecReceived ==
    { << >>, << 0, 0, 3, 232, 0, 12, 4, 0, 0, 0, 0 >> }
    \cup { StructPack(1000, tl, pack_flags(r, c, FALSE, q, st), cc).bytes \o d :
             tl \in { 0, 11, 12, 13, 40, 65535 }, r \in { 0, 5 }, c \in BOOLEAN,
             q \in BOOLEAN, st \in { 0, 200 }, cc \in { 0, 100 },
             d \in { << >>, << 7 >>, << 7, 8 >> } }
    \cup { StructPack(1000, 13, pack_flags(0, FALSE, FALSE, FALSE, st), 0).bytes \o << 7 >> :
             st \in { 199, 200, 201, 299, 300, 399, 400, 404, 499, 500, 503, 599, 600 } }

CodecInit ==
    /\ overlap = FALSE
    /\ ProxyInit
    /\ CallsOff
    /\ EvalOff
    /\ StrOff
    /\ c_hdr = NoHeader
    /\ c_out = NoHeader
    /\ c_seen = "nothing"
    /\ \/ c_pc = "args" /\ c_args \in CodecArgs /\ c_wire = << >>
       \/ c_pc = "received" /\ c_args = NoArgs /\ c_wire \in CodecReceived

\* CalculatorHeader(...)
Construct ==
    /\ c_pc = "args"
    /\ LET a == c_args
           made == CalculatorHeader(a.unix_time_stamp, a.total_length, a.reserved,
                                    a.cache_result, a.show_steps, a.is_request,
                                    a.status_code, a.cache_control, a.data)
       IN  /\ c_pc' = IF made.ok THEN "made" ELSE "rejected"
           /\ c_hdr' = made.h
    /\ UNCHANGED << c_args, c_wire, c_out, c_seen >>
    /\ UNCHANGED << proxyVars, evalVars, strVars, callVars >>

\* header.pack()
Pack ==
    /\ c_pc = "made"
    /\ LET packed == pack(c_hdr)
       IN  /\ c_pc' = IF packed.ok THEN "packed" ELSE "pack_failed"
           /\ c_wire' = packed.bytes
    /\ UNCHANGED << c_args, c_hdr, c_out, c_seen >>
    /\ UNCHANGED << proxyVars, evalVars, strVars, callVars >>

\* CalculatorHeader.unpack(bytes)
Unpack ==
    /\ c_pc \in { "packed", "received" }
    /\ LET got == unpack(c_wire)
       IN  /\ c_pc' = IF got.ok THEN "unpacked" ELSE "unpack_failed"
           /\ c_out' = got.h
    /\ UNCHANGED << c_args, c_hdr, c_wire, c_seen >>
    /\ UNCHANGED << proxyVars, evalVars, strVars, callVars >>

\* client.py, process_response: what the client does with a received header:
\* it prints the result, or raises the error the response carries as a
\* CalculatorClientError or CalculatorServerError, or raises a
\* CalculatorClientError of its own
process_response(response) ==
    IF response.is_request THEN "CalculatorClientError: request"
    ELSE IF response.status_code = STATUS_OK THEN "result"
    ELSE IF response.status_code = STATUS_CLIENT_ERROR THEN "CalculatorClientError: error"
    ELSE IF response.status_code = STATUS_SERVER_ERROR THEN "CalculatorServerError: error"
    ELSE "CalculatorClientError: unknown status code"

\* client.py lines 76-77: the client hands the unpacked header to process_response
ProcessResponse ==
    /\ c_pc = "unpacked"
    /\ c_pc' = "processed"
    /\ c_seen' = process_response(c_out)
    /\ UNCHANGED << c_args, c_hdr, c_wire, c_out >>
    /\ UNCHANGED << proxyVars, evalVars, strVars, callVars >>

CodecNext ==
    \/ Construct
    \/ Pack
    \/ Unpack
    \/ ProcessResponse

SpecCodec == CodecInit /\ [][CodecNext]_vars

(***************************************************************************)
(* The evaluator on its own: the server evaluates the expression of a      *)
(* request.                                                                *)
(***************************************************************************)
\* the operands the client's expressions are built from: numbers and a named
\* constant
Leaves == { Real(0), Real(2), Real(3), Constant(2), NamedConstant("TAU", 6) }

\* one operator applied to leaves, as the builders of client.py make it
Simple ==
    { BinaryExpr(a, op, b) : a \in Leaves, op \in { "+", "-", "*", "%" }, b \in Leaves }
    \cup { UnaryExpr(op, a) : op \in { "-", "+" }, a \in Leaves }
    \cup { FunctionCallExpr(fn, << a, b >>) :
             fn \in { "max", "min" }, a \in Leaves, b \in Leaves }

\* the operands of the deeper expressions
Inner ==
    { BinaryExpr(Real(2), "+", Real(3)), BinaryExpr(Real(3), "%", Real(0)),
      UnaryExpr("-", Real(2)), FunctionCallExpr("max", << Real(2), Real(3) >>) }

\* operators applied to operands that are expressions themselves
Nested ==
    { BinaryExpr(a, op, b) : a \in Inner, op \in { "-", "*" }, b \in Inner \cup { Real(3) } }
    \cup { BinaryExpr(a, "+", b) : a \in { Real(3) } \cup Inner, b \in Inner \cup { Real(3) } }
    \cup { UnaryExpr("-", a) : a \in Inner }
    \cup { FunctionCallExpr("min", << a, b, c >>) :
             a \in Inner \cup { Real(2) }, b \in { Real(3) }, c \in Inner }

\* three levels, among them -(-((1 + (2 + 3)) * -(4 + 5))) of client.py line 114
\* with * in the place of **
Deep ==
    { UnaryExpr("-", UnaryExpr("-", BinaryExpr(
          BinaryExpr(Real(1), "+", BinaryExpr(Real(2), "+", Real(3))), "*",
          UnaryExpr("-", BinaryExpr(Real(4), "+", Real(5)))))),
      FunctionCallExpr("max", << Real(2), BinaryExpr(Real(3), "*", Real(4)), Real(5),
                                 BinaryExpr(Real(6), "*",
                                     BinaryExpr(BinaryExpr(Real(7), "*", Real(8)), "-", Real(9))),
                                 BinaryExpr(Real(10), "%", Real(11)) >>) }

Trees == Leaves \cup Simple \cup Nested \cup Deep

\* an expression whose steps name a long constant twice
Oversized ==
    { BinaryExpr(BinaryExpr(BinaryExpr(Real(1), "+", Real(1)), "+", Real(1)), "+",
                 NamedConstant(LongName, 6)) }

\* payloads that pickle.loads rejects
Garbage == { [kind |-> "garbage"] }

EvalInit ==
    /\ overlap = FALSE
    /\ ProxyInit
    /\ CallsOff
    /\ CodecOff
    /\ StrOff
    /\ e_pc = "expr"
    /\ e_expr \in Trees \cup Oversized \cup Garbage
    /\ e_request \in [is_request : BOOLEAN, show_steps : BOOLEAN]
    /\ e_value = 0
    /\ e_steps = << >>
    /\ e_err = ""
    /\ e_response = NoResponse

\* process_request, lines 62-69: result, steps = None, []; the payload is
\* unpickled and calculate(expr, steps) is called, or an exception is raised
Calculate ==
    /\ e_pc = "expr"
    /\ LET expr == data_to_expression(e_expr)
           c == IF ~e_request.is_request THEN Thrown("TypeError")
                ELSE IF ~expr.ok THEN Thrown(expr.err)
                ELSE calculate(expr.value, << >>)
       IN  /\ e_pc' = IF c.ok THEN "calculated" ELSE "raised"
           /\ e_value' = c.value
           /\ e_steps' = c.steps
           /\ e_err' = c.err
    /\ UNCHANGED << e_expr, e_request, e_response >>
    /\ UNCHANGED << proxyVars, codecVars, strVars, callVars >>

\* process_request, lines 70-78: the 400 response of the exception, or the
\* steps as strings (or none) and the response of from_result; an exception
\* of these lines leaves process_request
Respond ==
    /\ e_pc \in { "calculated", "raised" }
    /\ e_response = NoResponse
    /\ e_response' =
         IF e_pc = "raised"
         THEN from_error(now, pickle_dumps_error(e_err), STATUS_CLIENT_ERROR,
                         CACHE_POLICY, CACHE_CONTROL)
         ELSE LET strs == IF e_request.show_steps
                          THEN [k \in 1 .. Len(e_steps) |-> stringify(e_steps[k], TRUE)]
                          ELSE << >>
              IN  IF \E k \in 1 .. Len(strs) : ~strs[k].ok THEN Raised("ValueError")
                  ELSE from_result(now, e_value, [k \in 1 .. Len(strs) |-> strs[k].text],
                                   CACHE_POLICY, CACHE_CONTROL)
    /\ UNCHANGED << e_pc, e_expr, e_value, e_steps, e_err, e_request >>
    /\ UNCHANGED << proxyVars, codecVars, strVars, callVars >>

EvalNext ==
    \/ Calculate
    \/ Respond

SpecEval == EvalInit /\ [][EvalNext]_vars

(***************************************************************************)
(* The default of steps: calculate is called several times on one          *)
(* expression, with no step list (the default of line 12 is used) or with  *)
(* a new list, as process_request calls it.                                *)
(***************************************************************************)
\* calls made in one run
MaxCalls == 2

CallsInit ==
    /\ overlap = FALSE
    /\ ProxyInit
    /\ CodecOff
    /\ EvalOff
    /\ StrOff
    /\ d_pc = "calls"
    /\ d_expr \in Trees
    /\ d_default = << >>
    /\ d_returned = << >>

\* what a call gave its caller: the (value, steps) it returned, or the
\* exception; passed tells whether the caller gave a list
Outcome(passed, c) ==
    [passed |-> passed, ok |-> c.ok, value |-> c.value, steps |-> c.steps, err |-> c.err]

\* calculate(e): line 12 binds steps to the default list object, lines 18-56
\* append to that object and return it
CallDefault ==
    /\ d_pc = "calls"
    /\ Len(d_returned) < MaxCalls
    /\ d_returned' = Append(d_returned, Outcome(FALSE, calculate(d_expr, d_default)))
    /\ d_default' = Appended(d_expr, d_default)
    /\ UNCHANGED << d_pc, d_expr >>
    /\ UNCHANGED << proxyVars, codecVars, evalVars, strVars >>

\* calculate(e, []) as at lines 63 and 67: the list is the caller's own
CallPassing ==
    /\ d_pc = "calls"
    /\ Len(d_returned) < MaxCalls
    /\ d_returned' = Append(d_returned, Outcome(TRUE, calculate(d_expr, << >>)))
    /\ UNCHANGED << d_pc, d_expr, d_default >>
    /\ UNCHANGED << proxyVars, codecVars, evalVars, strVars >>

CallsNext ==
    \/ CallDefault
    \/ CallPassing

SpecCalls == CallsInit /\ [][CallsNext]_vars

(***************************************************************************)
(* The rendering on its own: an expression is given to stringify, and the  *)
(* bracket pass is applied once more to what it returned.                  *)
(***************************************************************************)
\* an operator applied to negated sums, in the way of -(4 + 5) in the
\* expression of client.py line 114
Negated ==
    LET sum == BinaryExpr(Real(2), "+", Real(3))
        neg == UnaryExpr("-", sum)
    IN  { BinaryExpr(neg, "+", Real(4)), BinaryExpr(Real(4), "+", neg),
          BinaryExpr(neg, "+", neg), BinaryExpr(sum, "*", neg),
          UnaryExpr("-", UnaryExpr("-", sum)), UnaryExpr("-", UnaryExpr("-", neg)),
          FunctionCallExpr("max", << neg, neg >>),
          FunctionCallExpr("max", << neg, Real(3) >>),
          BinaryExpr(UnaryExpr("-", FunctionCallExpr("max", << sum, Real(3) >>)), "-", sum) }

StrInit ==
    /\ overlap = FALSE
    /\ ProxyInit
    /\ CallsOff
    /\ CodecOff
    /\ EvalOff
    /\ s_pc = "expr"
    /\ s_expr \in Trees \cup Negated
    /\ s_brackets \in BOOLEAN
    /\ s_once = Unmatched
    /\ s_twice = Unmatched

\* server.py line 74, stringify(step, add_brackets=True), and stringify(expr)
Stringify ==
    /\ s_pc = "expr"
    /\ s_pc' = "rendered"
    /\ s_once' = stringify(s_expr, s_brackets)
    /\ UNCHANGED << s_expr, s_brackets, s_twice >>
    /\ UNCHANGED << proxyVars, codecVars, evalVars, callVars >>

\* the pass of lines 289-307 on the string stringify returned
Restrip ==
    /\ s_pc = "rendered"
    /\ s_once.ok
    /\ s_pc' = "again"
    /\ s_twice' = RemoveBrackets(s_once.text)
    /\ UNCHANGED << s_expr, s_brackets, s_once >>
    /\ UNCHANGED << proxyVars, codecVars, evalVars, callVars >>

StrNext ==
    \/ Stringify
    \/ Restrip

SpecStr == StrInit /\ [][StrNext]_vars

(***************************************************************************)
(* Properties of the proxy.                                                *)
(***************************************************************************)
\* the (payload bytes, steps flag) pair of the request worker w is processing
AskedKey(w) == << request[w].data, request[w].show_steps >>

\* worker w takes the step of process_request that looks the request up
Looks(w) == pc[w] = "process" /\ pc'[w] # "process" /\ request[w].is_request

\* worker w takes the step that ends its upstream round trip with a response
Refreshes(w) == pc[w] = "recv" /\ pc'[w] = "reply" /\ result'[w].kind = "ok"

\* worker w has a result or an exception of process_request in hand
Finished(w) == pc[w] \in { "reply", "sent" }

\* C1: between a worker's read of a key's cache entry and that worker's own
\* store (or its decision not to store), no other worker reads or writes the
\* entry of that key.
C1_AtomicSection == \A w \in Workers : ~interfered[w]

\* C2: when the cache holds an entry for the request's key, the request's
\* cache_control is not 0 and entry.cache_control - age and
\* request.cache_control - age are both strictly positive, the lookup returns
\* the stored entry as a hit, and a request answered as a hit has made no
\* upstream connection.
C2_FreshEntryIsHit ==
    [][\A w \in Workers :
         /\ (Looks(w) /\ AskedKey(w) \in DOMAIN cache /\ request[w].cache_control # 0)
               => LET entry == cache[AskedKey(w)]
                      age == now - entry.unix_time_stamp
                  IN  (entry.cache_control - age > 0 /\ request[w].cache_control - age > 0)
                        => /\ pc'[w] = "reply"
                           /\ result'[w].kind = "ok"
                           /\ result'[w].cache_hit
                           /\ result'[w].response = entry
         /\ result'[w].cache_hit => contacts'[w] = 0]_vars

\* a hit decided on finite remainders
C2_Witness ==
    \E w \in Workers :
        /\ pc[w] = "reply" /\ result[w].cache_hit /\ contacts[w] = 0
        /\ ~result[w].server_time_remaining.inf
        /\ ~result[w].client_time_remaining.inf

\* C3: a request whose cache_control is 0 is never answered from the cache:
\* whatever the cache holds, its lookup goes on to the upstream connection, and
\* what process_request returns for it is not a hit.
C3_NoCacheBypasses ==
    [][\A w \in Workers :
         /\ (Looks(w) /\ request[w].cache_control = 0)
               => (pc'[w] = "connect" /\ ~result'[w].cache_hit)
         /\ (request'[w].is_request /\ request'[w].cache_control = 0 /\ pc'[w] \in { "reply", "sent" })
               => (~result'[w].cache_hit /\ contacts'[w] = 1)]_vars

\* a cache_control = 0 request for a key whose entry would have been fresh
C3_Witness ==
    \E w \in Workers :
        /\ pc[w] = "reply" /\ request[w].is_request /\ request[w].cache_control = 0
        /\ result[w].kind = "ok" /\ contacts[w] = 1
        /\ AskedKey(w) \in DOMAIN cache
        /\ cache[AskedKey(w)].cache_control = INDEFINITE
        /\ cache[AskedKey(w)] # result[w].response

\* C4: the step that ends an upstream round trip writes the entry of the
\* request's key if and only if request.cache_flag, response.cache_flag and both
\* remainders computed for the fresh response are strictly positive; otherwise
\* it leaves the cache as it was, as does every other step of the request.
C4_StoreIff ==
    [][/\ cache' # cache => \E w \in Workers : Refreshes(w)
       /\ \A w \in Workers :
         Refreshes(w)
           => LET response == result'[w].response
                  agreed == /\ request[w].cache_result
                            /\ response.cache_result
                            /\ Positive(result'[w].server_time_remaining)
                            /\ Positive(result'[w].client_time_remaining)
              IN  /\ result'[w].cached = agreed
                  /\ agreed => /\ AskedKey(w) \in DOMAIN cache'
                               /\ cache'[AskedKey(w)] = response
                               /\ \A k \in DOMAIN cache' \ { AskedKey(w) } :
                                     k \in DOMAIN cache /\ cache'[k] = cache[k]
                               /\ DOMAIN cache \subseteq DOMAIN cache'
                  /\ ~agreed => cache' = cache]_vars

\* both sides asked to cache, yet a remainder is not positive: nothing is stored
C4_Witness ==
    \E w \in Workers :
        /\ pc[w] = "reply" /\ result[w].kind = "ok" /\ ~result[w].cache_hit
        /\ request[w].cache_result /\ result[w].response.cache_result
        /\ ~result[w].cached

\* C5: a request with cache_flag set and cache_control = 65535 that upstream
\* answers with cache_flag set and cache_control = 65535 stores the response
\* under its key (outcome stored); a following request with the same payload
\* and steps flag (and the same cache_control) that finds this entry is
\* answered with it as a hit, without an upstream connection.
C5_StoreThenHit ==
    [][\A w \in Workers :
         /\ (Refreshes(w)
               /\ request[w].cache_result /\ request[w].cache_control = 65535
               /\ result'[w].response.cache_result
               /\ result'[w].response.cache_control = 65535)
              => /\ result'[w].cached
                 /\ AskedKey(w) \in DOMAIN cache'
                 /\ cache'[AskedKey(w)] = result'[w].response
         /\ (Looks(w)
               /\ request[w].cache_result /\ request[w].cache_control = 65535
               /\ AskedKey(w) \in DOMAIN cache
               /\ cache[AskedKey(w)].cache_control = 65535)
              => /\ pc'[w] = "reply"
                 /\ result'[w].cache_hit
                 /\ result'[w].response = cache[AskedKey(w)]
                 /\ contacts'[w] = 0]_vars

\* the second of two messages, with no time passed since the first, is a hit on
\* a never-expiring entry
C5_Witness ==
    \E w \in Workers :
        /\ accepted = 2 /\ ticks = 0 /\ ~overlap
        /\ pc[w] = "reply" /\ result[w].cache_hit /\ contacts[w] = 0
        /\ request[w].cache_control = 65535
        /\ result[w].response.cache_control = 65535
        /\ cache[AskedKey(w)] = result[w].response

\* C7: cache_control = 65535 is an unbounded budget: an entry with 65535 looked
\* up by a request with 65535 is a hit at every age, and a side whose
\* cache_control is 65535 does not make the entry stale: the lookup is a hit as
\* soon as the other side's cache_control - age is strictly positive.
C7_IndefiniteNeverStale ==
    [][\A w \in Workers :
         (Looks(w) /\ AskedKey(w) \in DOMAIN cache /\ request[w].cache_control # 0)
           => LET entry == cache[AskedKey(w)]
                  age == now - entry.unix_time_stamp
                  unbounded(cc) == cc = 65535
              IN  (/\ unbounded(entry.cache_control) \/ entry.cache_control - age > 0
                   /\ unbounded(request[w].cache_control)
                         \/ request[w].cache_control - age > 0)
                    => (result'[w].cache_hit /\ ~was_stale'[w])]_vars

\* a hit on an entry older than 65535 seconds
C7_Witness ==
    \E w \in Workers :
        /\ pc[w] = "reply" /\ result[w].cache_hit
        /\ now - result[w].response.unix_time_stamp > 65535

\* C8 as stated: on a hit the reported server_remaining is
\* entry.cache_control - age and the reported client_remaining is
\* request.cache_control - age.
C8_RemaindersAreDifferences ==
    \A w \in Workers :
        (Finished(w) /\ result[w].cache_hit)
          => LET age == now - result[w].response.unix_time_stamp
             IN  /\ result[w].server_time_remaining
                       = Fin(result[w].response.cache_control - age)
                 /\ result[w].client_time_remaining
                       = Fin(request[w].cache_control - age)

\* C8, amended: on a hit each reported remainder is cache_control - age of its
\* side (the entry's for the server, the request's for the client) when that
\* cache_control is not 65535, and infinite when it is 65535.
C8_RemaindersReported ==
    \A w \in Workers :
        (Finished(w) /\ result[w].cache_hit)
          => LET age == now - result[w].response.unix_time_stamp
                 expected(cc) == IF cc = 65535 THEN Inf ELSE Fin(cc - age)
             IN  /\ result[w].server_time_remaining
                       = expected(result[w].response.cache_control)
                 /\ result[w].client_time_remaining
                       = expected(request[w].cache_control)

\* the entry with cache_control = 100 at age 50, asked for with cache_control = 200
C8_Witness ==
    \E w \in Workers :
        /\ pc[w] = "reply" /\ result[w].cache_hit
        /\ result[w].response.cache_control = 100
        /\ now - result[w].response.unix_time_stamp = 50
        /\ request[w].cache_control = 200
        /\ result[w].client_time_remaining = Fin(150)
        /\ result[w].server_time_remaining = Fin(50)

\* C9: entries are keyed by (payload bytes, steps flag): a hit returns the entry
\* stored under the request's own pair, which is a response computed for that
\* payload and that steps flag, and a request's store changes the entry of its
\* own pair only.
C9_KeyedByPayloadAndSteps ==
    [][\A w \in Workers :
         /\ (Looks(w) /\ result'[w].cache_hit)
               => /\ AskedKey(w) \in DOMAIN cache
                  /\ result'[w].response = cache[AskedKey(w)]
         /\ result'[w].cache_hit
               => /\ result'[w].response.data[1] = request'[w].data[1]
                  /\ result'[w].response.data[2] = BoolInt(request'[w].show_steps)
         /\ Refreshes(w)
               => /\ \A k \in DOMAIN cache \ { AskedKey(w) } :
                        k \in DOMAIN cache' /\ cache'[k] = cache[k]
                  /\ DOMAIN cache' \subseteq DOMAIN cache \cup { AskedKey(w) }]_vars

\* a request misses although the entry of the same payload with the other
\* steps flag is in the cache
C9_Witness ==
    \E w \in Workers :
        /\ pc[w] = "connect" /\ ~was_stale[w] /\ request[w].cache_control # 0
        /\ AskedKey(w) \notin DOMAIN cache
        /\ << request[w].data, ~request[w].show_steps >> \in DOMAIN cache

\* C10: a key of the cache stays in the cache, and its entry changes only by
\* being overwritten with the response of a later upstream round trip for
\* that key.
C10_NeverDeleted ==
    [][\A k \in DOMAIN cache :
         /\ k \in DOMAIN cache'
         /\ cache'[k] # cache[k]
               => \E w \in Workers :
                     /\ Refreshes(w) /\ result'[w].cached
                     /\ k = AskedKey(w)
                     /\ cache'[k] = result'[w].response]_vars

\* a stale entry was superseded by the response of the refreshing round trip
C10_Witness ==
    \E w \in Workers :
        /\ pc[w] = "reply" /\ result[w].kind = "ok"
        /\ result[w].was_stale /\ result[w].cached
        /\ cache[AskedKey(w)] = result[w].response

\* C11: a worker blocked in its upstream round trip keeps no other worker from
\* running: whether or not worker 1 ever returns from its round trip, a request
\* another worker has received, for the same key or another, is processed to
\* completion (its response is sent).
C11_BlockedWorkerBlocksNoOther ==
    \A v \in Workers \ { 1 } : (pc[v] = "process") ~> (pc[v] = "sent")

\* a worker still waits for its upstream reply while another worker has looked
\* up the same key after it, made its own round trip and answered its client
C11_Witness ==
    \E w \in Workers : \E v \in Workers \ { w } :
        /\ pc[w] = "recv" /\ interfered[w] /\ ~interfered[v]
        /\ pc[v] = "sent" /\ result[v].kind = "ok"
        /\ AskedKey(v) = AskedKey(w)

\* C12: handling one request makes at most one upstream connection attempt:
\* none when the outcome is a hit, exactly one otherwise, also when the attempt
\* or the reply failed (no second attempt for that request).
C12_AtMostOneContact ==
    \A w \in Workers :
        /\ contacts[w] <= 1
        /\ pc[w] = "recv" => contacts[w] = 1
        /\ (Finished(w) /\ result[w].cache_hit) => contacts[w] = 0
        /\ (Finished(w) /\ request[w].is_request /\ ~result[w].cache_hit)
              => contacts[w] = 1

\* the connection was refused and the request is answered after that one attempt
C12_Witness ==
    \E w \in Workers :
        /\ pc[w] = "sent" /\ request[w].is_request
        /\ result[w].kind = "error" /\ result[w].err = "CalculatorServerError"
        /\ contacts[w] = 1

\* worker w's upstream round trip failed: the connection was refused, or the
\* reply could not be unpacked, or the reply was a request
UpstreamFailed(w) ==
    /\ request[w].is_request
    /\ result[w].kind = "error"
    /\ result[w].err \in { "CalculatorServerError", "CalculatorClientError", "TypeError" }

\* C24: when the upstream connection is refused or the upstream reply is
\* malformed, the client receives exactly one response for its request, and
\* that response has status 500 and cache_flag false.
C24_UpstreamFailureIsOne500 ==
    \A w \in Workers :
        /\ (pc[w] = "reply" /\ UpstreamFailed(w)) => sent[w] = << >>
        /\ (pc[w] = "sent" /\ UpstreamFailed(w))
              => /\ Len(sent[w]) = 1
                 /\ ~sent[w][1].is_request
                 /\ sent[w][1].status_code = STATUS_SERVER_ERROR
                 /\ ~sent[w][1].cache_result
                 /\ sent[w][1].cache_control = 0

\* C24 witness: an upstream reply that could not be unpacked was answered
\* with one 500 response.
C24_Witness ==
    \E w \in Workers :
        /\ pc[w] = "sent" /\ UpstreamFailed(w)
        /\ result[w].err = "CalculatorClientError"
        /\ contacts[w] = 1
        /\ Len(sent[w]) = 1
        /\ sent[w][1].status_code = STATUS_SERVER_ERROR

\* the number of the flags (hit, was_stale, stored) of worker w's result that
\* are true
FlagsSet(w) ==
    BoolInt(result[w].cache_hit) + BoolInt(result[w].was_stale) + BoolInt(result[w].cached)

\* C28 (as stated): of the three flags (hit, was_stale, stored) that
\* process_request returns at most one is true.
C28_AtMostOneFlag ==
    \A w \in Workers :
        (Finished(w) /\ result[w].kind = "ok") => FlagsSet(w) <= 1

\* C28 (amended): a hit comes with was_stale false and stored false; without
\* a hit was_stale and stored are independent, and both are true when a stale
\* entry was refreshed and the refreshed response stored.
C28_HitExcludesStaleAndStored ==
    \A w \in Workers :
        (Finished(w) /\ result[w].kind = "ok") =>
            /\ result[w].cache_hit => (~result[w].was_stale /\ ~result[w].cached)
            /\ result[w].was_stale => CacheKey(request[w]) \in DOMAIN cache

\* C28 witness: a stale entry was refreshed and the refreshed response stored.
C28_Witness ==
    \E w \in Workers :
        /\ pc[w] = "sent" /\ result[w].kind = "ok"
        /\ ~result[w].cache_hit /\ result[w].was_stale /\ result[w].cached

\* a step of worker w inside process_request (lines 20-74)
InCall(w) == pc[w] \in { "process", "connect", "recv" } /\ pc'[w] # pc[w]

\* the call of worker w has not returned a response (it is still running, or
\* it has raised)
NothingReturned(w) == result'[w].kind # "ok"

\* the call of worker w raised, and the client has its answer
FailedAndAnswered(w) == pc[w] = "sent" /\ result[w].kind = "error"

\* C29: when process_request fails (the message is not a request, the
\* connection upstream is refused, the upstream reply cannot be unpacked, or
\* it is a request), no step of that call changes the cache: a stale entry of
\* the key is neither removed nor replaced; and it is not served: the client
\* gets the one 500 built from the exception, whose data is not the entry's.
C29_FailureLeavesCache ==
    /\ [][\A w \in Workers : (InCall(w) /\ NothingReturned(w)) => cache' = cache]_vars
    /\ [](\A w \in Workers :
            FailedAndAnswered(w) =>
                /\ Len(sent[w]) = 1
                /\ sent[w][1].status_code = STATUS_SERVER_ERROR
                /\ sent[w][1].data = ErrorData(result[w].err)
                /\ ~result[w].cache_hit)

\* C29's case: a request that found a stale entry under its key failed
\* upstream, and the entry is still there
C29_Witness ==
    \E w \in Workers :
        /\ FailedAndAnswered(w)
        /\ request[w].is_request
        /\ was_stale[w]
        /\ CacheKey(request[w]) \in DOMAIN cache
        /\ sent[w][1].data # cache[CacheKey(request[w])].data

\* the request of worker w forces a reload: its cache_control is 0, as it is
\* after construction (api.py 123-124) whenever its cache flag is false
ForcesReload(w) == request[w].is_request /\ request[w].cache_control = 0

\* C30: a request with the cache flag false or with cache_control 0 never
\* receives a hit and never causes a cache write: no step of its call changes
\* the cache, so an entry already stored under its key stays as it is.
C30_ReloadLeavesCache ==
    /\ [][\A w \in Workers : (InCall(w) /\ ForcesReload(w)) => cache' = cache]_vars
    /\ [](\A w \in Workers :
            (Finished(w) /\ ForcesReload(w) /\ result[w].kind = "ok") =>
                ~result[w].cache_hit /\ ~result[w].cached)

\* the entry e is stored under key k by a worker whose request has that key,
\* and the remainders computed from the entry's own stamp and cache_control and
\* from that request's cache_control are both strictly positive
StoredWhilePositive(k, e) ==
    \E w \in Workers :
        /\ pc[w] = "recv" /\ pc'[w] = "reply"
        /\ CacheKey(request[w]) = k
        /\ Positive(Remaining(e.cache_control, Age(now, e.unix_time_stamp)))
        /\ Positive(Remaining(request[w].cache_control, Age(now, e.unix_time_stamp)))

\* C31: every entry of the proxy cache, in every reachable state, is a response
\* (is_request false) with the cache flag true and cache_control >= 1, and at
\* the moment it was stored both its server remainder and the storing
\* request's client remainder were strictly positive.
C31_EntriesAreStorable ==
    /\ [](\A k \in DOMAIN cache :
            /\ ~cache[k].is_request
            /\ cache[k].cache_result
            /\ cache[k].cache_control >= 1)
    /\ [][/\ \A k \in DOMAIN cache' :
                (k \notin DOMAIN cache \/ cache'[k] # cache[k])
                    => StoredWhilePositive(k, cache'[k])
          /\ \A w \in Workers :
                (Refreshes(w) /\ result'[w].cached)
                    => /\ CacheKey(request[w]) \in DOMAIN cache'
                       /\ cache'[CacheKey(request[w])] = result'[w].response
                       /\ StoredWhilePositive(CacheKey(request[w]), result'[w].response)]_vars

\* C31's case: a worker has just stored a response whose cache_control is
\* finite, and the entry is the one in the cache
C31_Witness ==
    \E w \in Workers :
        /\ pc[w] = "reply" /\ result[w].kind = "ok" /\ result[w].cached
        /\ CacheKey(request[w]) \in DOMAIN cache
        /\ cache[CacheKey(request[w])] = result[w].response
        /\ cache[CacheKey(request[w])].cache_control = 100

\* worker w received from upstream an error response (4xx or 5xx) that allows
\* caching and whose two remainders are strictly positive
ErrorStorable(w) ==
    /\ Refreshes(w)
    /\ result'[w].response.status_code >= STATUS_CLIENT_ERROR
    /\ result'[w].response.cache_result
    /\ Positive(result'[w].server_time_remaining)
    /\ Positive(result'[w].client_time_remaining)

\* the response of worker w's call is now the entry of its key
NowStored(w) ==
    /\ result'[w].cached
    /\ CacheKey(request[w]) \in DOMAIN cache'
    /\ cache'[CacheKey(request[w])] = result'[w].response

\* worker w looks up a key whose entry is an error response
LooksAtError(w) ==
    /\ Looks(w)
    /\ CacheKey(request[w]) \in DOMAIN cache
    /\ cache[CacheKey(request[w])].status_code >= STATUS_CLIENT_ERROR

\* the entry of worker w's key is fresh for its request (lines 29-36)
FreshFor(w) ==
    LET entry == cache[CacheKey(request[w])]
        age == Age(now, entry.unix_time_stamp)
    IN  /\ request[w].cache_control # 0
        /\ Positive(Remaining(entry.cache_control, age))
        /\ Positive(Remaining(request[w].cache_control, age))

\* the call of worker w returns the entry of its key as a hit
HitOnEntry(w) ==
    /\ pc'[w] = "reply"
    /\ result'[w].kind = "ok"
    /\ result'[w].cache_hit
    /\ result'[w].response = cache[CacheKey(request[w])]

\* the server's own 400 reaches the proxy marked cacheable, cache_control 65535
Server400Cacheable ==
    \A w \in Workers :
        (Refreshes(w) /\ result'[w].response.status_code = STATUS_CLIENT_ERROR)
            => /\ result'[w].response.cache_result
               /\ result'[w].response.cache_control = MAX_CACHE_CONTROL

\* C32 as stated: an upstream response with a 4xx or 5xx status, the cache flag
\* true and positive remainders is stored, and is then returned as a hit to
\* later requests with the same key; the server marks its own 400 error
\* responses cacheable with cache_control 65535.
C32_ErrorStoredThenHit ==
    [][/\ \A w \in Workers : ErrorStorable(w) => NowStored(w)
       /\ \A w \in Workers : LooksAtError(w) => HitOnEntry(w)
       /\ Server400Cacheable]_vars

\* C32 amended: the store decision does not depend on the status code: such an
\* error response is stored exactly when the request's cache flag is true too,
\* and the stored error is returned as a hit to exactly the later requests of
\* the key whose cache_control is not 0 and for which both remainders against
\* the entry are positive; the server's 400 is cacheable, cache_control 65535.
C32_ErrorStoredForCachingRequest ==
    [][/\ \A w \in Workers :
            ErrorStorable(w) => (NowStored(w) <=> request[w].cache_result)
       /\ \A w \in Workers :
            ErrorStorable(w) => (result'[w].cached <=> request[w].cache_result)
       /\ \A w \in Workers : LooksAtError(w) => (HitOnEntry(w) <=> FreshFor(w))
       /\ Server400Cacheable]_vars

\* C32's case: a request is answered from the cache with an error response
\* that an earlier request stored
C32_Witness ==
    \E w \in Workers :
        /\ pc[w] = "reply" /\ result[w].kind = "ok" /\ result[w].cache_hit
        /\ result[w].response.status_code >= STATUS_CLIENT_ERROR
        /\ cache[CacheKey(request[w])] = result[w].response

(***************************************************************************)
(* Properties of the header codec.                                         *)
(***************************************************************************)
\* the header that was packed came from the constructor
Constructed == c_args # NoArgs

\* C6: every header the constructor accepts (total_length anywhere in
\* 12..65536) is packed without an error, and unpacking the bytes gives a
\* header with the same timestamp, total_length, reserved bits, flags,
\* status_code, cache_control and payload.
C6_RoundTrip ==
    Constructed
      => /\ c_pc # "pack_failed"
         /\ c_pc # "unpack_failed"
         /\ c_pc = "unpacked" => c_out = c_hdr

\* the bytes unpack was given came from a peer, not from pack
Received == c_args = NoArgs /\ c_pc \in { "unpacked", "unpack_failed" }

\* the total length the received bytes declare
Declared == FromBE2(SubSeq(c_wire, 5, 6))

\* C13: every header constructed with is_request true, by the constructor or by
\* unpack, has status_code 0.
C13_RequestStatusZero ==
    /\ (c_pc \in { "made", "packed", "unpacked" } /\ c_hdr.is_request)
          => c_hdr.status_code = 0
    /\ (c_pc = "unpacked" /\ c_out.is_request) => c_out.status_code = 0

\* C14: in every constructed header (by the constructor or by unpack)
\* cache_result false implies cache_control = 0; a nonzero cache_control given
\* with cache_result false is zeroed and the header is made, not rejected; a
\* response given with cache_result true and cache_control 0 ends with
\* cache_result false, so a response with cache_result true has
\* cache_control >= 1; a request given with cache_result true and
\* cache_control 0 keeps cache_result true.
C14_CacheFieldsNormalised ==
    /\ (Constructed /\ c_pc # "args")
          => LET a == c_args
                 lengthOk == \/ a.total_length = << >>
                             \/ /\ HEADER_MIN_LENGTH <= a.total_length[1]
                                /\ a.total_length[1] <= HEADER_MAX_LENGTH
             IN  /\ lengthOk <=> c_pc # "rejected"
                 /\ c_pc # "rejected"
                       => /\ ~c_hdr.cache_result => c_hdr.cache_control = 0
                          /\ (a.cache_control # 0 /\ ~a.cache_result)
                                => (c_hdr.cache_control = 0 /\ ~c_hdr.cache_result)
                          /\ (~a.is_request /\ a.cache_result /\ a.cache_control = 0)
                                => ~c_hdr.cache_result
                          /\ (~c_hdr.is_request /\ c_hdr.cache_result)
                                => c_hdr.cache_control >= 1
                          /\ (a.is_request /\ a.cache_result /\ a.cache_control = 0)
                                => (c_hdr.cache_result /\ c_hdr.cache_control = 0)
    /\ c_pc = "unpacked"
          => /\ ~c_out.cache_result => c_out.cache_control = 0
             /\ (~c_out.is_request /\ c_out.cache_result) => c_out.cache_control >= 1

\* a header was made from cache_result false and a nonzero cache_control
C14_Witness ==
    /\ c_pc = "made" /\ ~c_args.cache_result /\ c_args.cache_control = 100
    /\ c_hdr.cache_control = 0

C16_MismatchNeverFails ==
    (Received /\ Len(c_wire) >= 12 /\ Declared # Len(c_wire))
      => /\ c_pc = "unpacked"
         /\ c_out.data = SubSeq(c_wire, 13, Len(c_wire))

\* C16, amended: unpack of an input of at least 12 bytes whose declared
\* total_length is at least 12 and differs from the number of bytes supplied
\* does not fail: the header's payload is the bytes after the 12-byte prefix
\* and its total_length is the declared one; when the declared total_length is
\* below 12, unpack raises and gives no header.
C16_MismatchInRangeNeverFails ==
    (Received /\ Len(c_wire) >= 12 /\ Declared # Len(c_wire))
      => IF Declared >= 12
         THEN /\ c_pc = "unpacked"
              /\ c_out.data = SubSeq(c_wire, 13, Len(c_wire))
              /\ c_out.total_length = Declared
         ELSE c_pc = "unpack_failed" /\ c_out = NoHeader

\* 14 bytes that declare 13 were unpacked with their two payload bytes
C16_Witness ==
    /\ Received /\ c_pc = "unpacked"
    /\ Len(c_wire) = 14 /\ Declared = 13
    /\ c_out.data = << 7, 8 >>

\* C17: unpack of fewer than 12 bytes, the empty input included, raises and
\* gives no header.
C17_ShortInputFails ==
    (Received /\ Len(c_wire) < 12) => (c_pc = "unpack_failed" /\ c_out = NoHeader)

\* unpack of 11 bytes has raised
C17_Witness == c_pc = "unpack_failed" /\ Len(c_wire) = 11

\* C18: a received response is classified by the leading digit of its status
\* code: every status 200..299 is handled as success (the result is decoded),
\* every status 400..499 as a client error and every status 500..599 as a
\* server error.
C18_ClassifiedByLeadingDigit ==
    (c_pc = "processed" /\ ~c_out.is_request)
      => /\ c_out.status_code \div 100 = 2 => c_seen = "result"
         /\ c_out.status_code \div 100 = 4 => c_seen = "CalculatorClientError: error"
         /\ c_out.status_code \div 100 = 5 => c_seen = "CalculatorServerError: error"

(***************************************************************************)
(* Properties of the evaluator.                                            *)
(***************************************************************************)
\* the expression is a Constant or a NamedConstant (a bare number counts as
\* the Constant it is wrapped in)
IsLeaf(expr) == type_fallback(expr).kind \in { "Constant", "NamedConstant" }

\* the value of a tree, bottom-up: a leaf gives its scalar, an operator or a
\* function is applied to the values of its operands
RECURSIVE ValueOf(_)
ValueOf(expr) ==
    CASE expr.kind \in { "Real", "Constant", "NamedConstant" } -> expr.value
      [] expr.kind = "BinaryExpr" ->
           LET a == ValueOf(expr.left_operand)
               b == ValueOf(expr.right_operand)
           IN  IF expr.operator = "+" THEN a + b
               ELSE IF expr.operator = "-" THEN a - b
               ELSE IF expr.operator = "*" THEN a * b
               ELSE IF b > 0 THEN a % b
               ELSE 0 - ((0 - a) % (0 - b))
      [] expr.kind = "UnaryExpr" ->
           IF expr.operator = "-" THEN 0 - ValueOf(expr.operand)
           ELSE ValueOf(expr.operand)
      [] expr.kind = "FunctionCallExpr" ->
           LET vs == { ValueOf(expr.args[i]) : i \in 1 .. Len(expr.args) }
           IN  IF expr.function = "max" THEN CHOOSE m \in vs : \A x \in vs : m >= x
               ELSE CHOOSE m \in vs : \A x \in vs : m <= x

\* C19 as stated: for every expression tree, leaf or compound, the step
\* sequence calculate returns has a last element, and it is a Constant whose
\* value is the returned value.
C19_LastStepIsResult ==
    e_pc = "calculated"
      => /\ Len(e_steps) > 0
         /\ e_steps[Len(e_steps)] = Constant(e_value)

\* C19, amended: for every tree that is not a leaf (a binary or unary
\* expression or a function call) the step sequence calculate returns has a
\* last element, and it is a Constant whose value is the returned value; for a
\* Constant or NamedConstant the returned sequence is empty.
C19_LastStepOfCompoundIsResult ==
    e_pc = "calculated"
      => IF IsLeaf(e_expr) THEN e_steps = << >>
         ELSE /\ Len(e_steps) > 0
              /\ e_steps[Len(e_steps)] = Constant(e_value)

\* a nested expression whose steps end with its value
C19_Witness ==
    /\ e_pc = "calculated"
    /\ e_expr = BinaryExpr(FunctionCallExpr("max", << Real(2), Real(3) >>), "*",
                           BinaryExpr(Real(2), "+", Real(3)))
    /\ Len(e_steps) = 4
    /\ e_steps[4] = Constant(15)

\* C20: the value calculate returns is the value of the tree evaluated
\* bottom-up; add(max(2, 3), 3) gives 6.
C20_ValueIsBottomUp ==
    e_pc = "calculated"
      => /\ e_value = ValueOf(e_expr)
         /\ e_expr = BinaryExpr(FunctionCallExpr("max", << Real(2), Real(3) >>), "+", Real(3))
               => e_value = 6

\* add(max(2, 3), 3) was evaluated to 6
C20_Witness ==
    /\ e_pc = "calculated"
    /\ e_expr = BinaryExpr(FunctionCallExpr("max", << Real(2), Real(3) >>), "+", Real(3))
    /\ e_value = 6

\* the steps of an operand on its own that are not its last: the snapshots
\* the enclosing expression makes its own snapshots from
Intermediate(operand) ==
    LET own == calculate(operand, << >>).steps
    IN  SubSeq(own, 1, Len(own) - 1)

\* the Constant an operand is reduced to
Final(operand) == [kind |-> "Constant", value |-> ValueOf(operand)]

\* C25: in the steps of a BinaryExpr the snapshots made from the left
\* operand's steps come first, each with the right operand as the expression
\* has it; the snapshots made from the right operand's steps follow, each
\* with the Constant of the left operand's value as its left operand.
C25_LeftPhaseThenRightPhase ==
    (e_pc = "calculated" /\ e_expr.kind = "BinaryExpr") =>
        LET l == Intermediate(e_expr.left_operand)
            r == Intermediate(e_expr.right_operand)
        IN  /\ Len(e_steps) = Len(l) + Len(r) + 2
            /\ \A k \in 1 .. Len(l) :
                  e_steps[k] = [kind |-> "BinaryExpr", left_operand |-> l[k],
                                operator |-> e_expr.operator,
                                right_operand |-> e_expr.right_operand]
            /\ \A k \in 1 .. Len(r) :
                  e_steps[Len(l) + k] =
                      [kind |-> "BinaryExpr", left_operand |-> Final(e_expr.left_operand),
                       operator |-> e_expr.operator, right_operand |-> r[k]]

\* C25 witness: (2 + 3) * max(2, 3) gave (2 + 3) * max(2, 3), 5 * max(2, 3),
\* 5 * 3 and 15.
C25_Witness ==
    /\ e_pc = "calculated"
    /\ e_expr = BinaryExpr(BinaryExpr(Real(2), "+", Real(3)), "*",
                           FunctionCallExpr("max", << Real(2), Real(3) >>))
    /\ Len(e_steps) = 4
    /\ e_steps[1] = e_expr
    /\ e_steps[2] = BinaryExpr(Real(5), "*", FunctionCallExpr("max", << Real(2), Real(3) >>))
    /\ e_steps[3] = BinaryExpr(Real(5), "*", Real(3))

RECURSIVE SnapshotsBefore(_, _)
\* the number of snapshots made from the arguments before the i-th
SnapshotsBefore(call, i) ==
    IF i = 1 THEN 0
    ELSE SnapshotsBefore(call, i - 1) + Len(Intermediate(call.args[i - 1]))

\* C26: in the steps of a FunctionCallExpr the arguments are reduced from left
\* to right: a snapshot made from a step of argument i has the Constants of
\* the values of the arguments before i, that step in place i, and the
\* arguments after i as the call has them, so it has as many arguments as
\* the call.
C26_ArgumentsLeftToRight ==
    (e_pc = "calculated" /\ e_expr.kind = "FunctionCallExpr") =>
        LET n == Len(e_expr.args)
        IN  /\ Len(e_steps) = SnapshotsBefore(e_expr, n + 1) + 2
            /\ \A k \in 1 .. Len(e_steps) - 1 :
                  e_steps[k].kind = "FunctionCallExpr" /\ Len(e_steps[k].args) = n
            /\ \A i \in 1 .. n :
                  LET own == Intermediate(e_expr.args[i])
                  IN  \A k \in 1 .. Len(own) :
                         e_steps[SnapshotsBefore(e_expr, i) + k] =
                             [kind |-> "FunctionCallExpr", function |-> e_expr.function,
                              args |-> [j \in 1 .. n |->
                                          IF j < i THEN Final(e_expr.args[j])
                                          ELSE IF j = i THEN own[k]
                                          ELSE e_expr.args[j]]]

\* C26 witness: min(2 + 3, 3, max(2, 3)) gave min(2 + 3, 3, max(2, 3)),
\* min(5, 3, max(2, 3)), min(5, 3, 3) and 3.
C26_Witness ==
    /\ e_pc = "calculated"
    /\ e_expr = FunctionCallExpr("min", << BinaryExpr(Real(2), "+", Real(3)), Real(3),
                                           FunctionCallExpr("max", << Real(2), Real(3) >>) >>)
    /\ Len(e_steps) = 4
    /\ e_steps[2] = FunctionCallExpr("min", << Real(5), Real(3),
                                               FunctionCallExpr("max", << Real(2), Real(3) >>) >>)
    /\ e_steps[3] = FunctionCallExpr("min", << Real(5), Real(3), Real(3) >>)

\* a compound expression with the Constants of its operands' values in the
\* places of its operands
Reduced(expr) ==
    CASE expr.kind = "BinaryExpr" ->
           [expr EXCEPT !.left_operand = Final(expr.left_operand),
                        !.right_operand = Final(expr.right_operand)]
      [] expr.kind = "UnaryExpr" -> [expr EXCEPT !.operand = Final(expr.operand)]
      [] expr.kind = "FunctionCallExpr" ->
           [expr EXCEPT !.args = [j \in 1 .. Len(expr.args) |-> Final(expr.args[j])]]

\* C27: calculate returns no steps exactly for a Constant or NamedConstant;
\* for every other tree it returns at least two, the last being the Constant
\* of the result and the one before it the node with the Constants of its
\* operands' values as its operands.
C27_NoStepsExactlyForLeaves ==
    e_pc = "calculated" =>
        /\ e_steps = << >> <=> IsLeaf(e_expr)
        /\ ~IsLeaf(e_expr) =>
              /\ Len(e_steps) >= 2
              /\ e_steps[Len(e_steps)] = [kind |-> "Constant", value |-> e_value]
              /\ e_steps[Len(e_steps) - 1] = Reduced(e_expr)

\* C27 witness: -(2 + 3) gave -(2 + 3), -5 and the Constant -5, and TAU gave
\* no steps.
C27_Witness ==
    /\ e_pc = "calculated"
    /\ e_expr = UnaryExpr("-", BinaryExpr(Real(2), "+", Real(3)))
    /\ Len(e_steps) = 3
    /\ e_steps[2] = UnaryExpr("-", Real(5))
    /\ e_steps[3] = Constant(0 - 5)

(***************************************************************************)
(* Properties of the rendering.                                            *)
(***************************************************************************)
\* the string the bracket pass of the rendering run started from
Rendering == IF s_brackets THEN str_brackets(type_fallback(s_expr))
             ELSE str(type_fallback(s_expr))

\* the characters of a string that are not brackets, in their order
NonBrackets(t) == SelectSeq(t, LAMBDA ch : ch \notin { "(", ")" })

\* every closing bracket closes an opening one and none stays open
Balanced(t) == Matchings(t).ok

\* a balanced string has a pair that directly encloses another pair over the
\* same range, or a pair that spans the whole string
HasRedundantPair(t) ==
    LET pairs == Matchings(t).pairs
    IN  \/ \E k \in 1 .. Len(pairs) : Matches(pairs, pairs[k][1] + 1, pairs[k][2] - 1)
        \/ Matches(pairs, 0, Len(t) - 1)

\* C21: the bracket pass is idempotent: applied to its own output it gives
\* that output again.
C21_PassIsIdempotent ==
    s_pc = "again" => s_twice = s_once

\* C22: of a fully bracketed rendering the pass deletes only the brackets of
\* redundant pairs: the output is balanced, its other characters are those of
\* the rendering in their order, and no redundant pair is left.
C22_OnlyRedundantPairsDeleted ==
    (s_pc \in { "rendered", "again" } /\ s_brackets) =>
        /\ s_once.ok
        /\ Balanced(s_once.text)
        /\ NonBrackets(s_once.text) = NonBrackets(Rendering)
        /\ ~HasRedundantPair(s_once.text)

(***************************************************************************)
(* Properties of the server's process_request.                             *)
(***************************************************************************)
\* process_request has returned or raised
Responded == e_response # NoResponse

\* the request's payload does not unpickle to an Expression
NotAnExpression == e_expr.kind \in { "garbage", "Real" }

\* the evaluation failed in an operator's arithmetic
ArithmeticFailure == e_pc = "raised" /\ e_err = "ZeroDivisionError"

\* the response is the 400 response that carries the exception raised
Is400OfTheError ==
    /\ e_response.ok
    /\ ~e_response.h.is_request
    /\ e_response.h.status_code = STATUS_CLIENT_ERROR
    /\ e_response.h.data = pickle_dumps_error(e_err)

\* the steps of the evaluation as the response lists them
ListedSteps ==
    IF e_request.show_steps
    THEN [k \in 1 .. Len(e_steps) |-> stringify(e_steps[k], TRUE).text]
    ELSE << >>

\* C23 (as stated): a request whose payload is not an Expression, or whose
\* evaluation fails in its arithmetic, is answered with the 400 response that
\* carries the error, and process_request returns a header in every case.
C23_AlwaysAResponse ==
    Responded =>
        /\ e_response.ok
        /\ (e_request.is_request /\ (NotAnExpression \/ ArithmeticFailure))
             => (e_pc = "raised" /\ Is400OfTheError)

\* C23 (amended): such a request is answered with the 400 response that
\* carries the error; process_request returns a header whenever the response
\* it builds is at most HEADER_MAX_LENGTH bytes long, and raises the
\* constructor's ValueError when the pickled result and steps of a successful
\* evaluation make it longer.
C23_ResponseUnlessTooLong ==
    Responded =>
        /\ (e_request.is_request /\ (NotAnExpression \/ ArithmeticFailure))
             => (e_pc = "raised" /\ Is400OfTheError)
        /\ e_pc = "raised" => e_response.ok
        /\ e_pc = "calculated" =>
             /\ e_response.ok <=>
                  HEADER_MIN_LENGTH + Len(pickle_dumps(e_value, ListedSteps))
                      <= HEADER_MAX_LENGTH
             /\ ~e_response.ok => e_response.err = "ValueError"

\* C23 witness: a modulo by zero was answered with 400, and a payload that is
\* no Expression too.
C23_Witness ==
    /\ Responded
    /\ e_request.is_request
    /\ ArithmeticFailure
    /\ e_expr = BinaryExpr(Real(3), "%", Real(0))
    /\ Is400OfTheError

(***************************************************************************)
(* Properties of calculate called several times.                           *)
(***************************************************************************)
\* the steps of the expression alone
OwnSteps == calculate(d_expr, << >>).steps

\* the calls i < j that were given no step list and returned
DefaultCalls(i, j) ==
    /\ i < j
    /\ ~d_returned[i].passed /\ d_returned[i].ok
    /\ ~d_returned[j].passed /\ d_returned[j].ok

\* C33: the step sequence calculate returns depends only on the expression:
\* two successive calls calculate(e) on the same tree, no step list passed,
\* return equal step sequences, and the second call's sequence holds no steps
\* of the first call (it is the steps of the expression alone).
C33_StepsDependOnExpressionOnly ==
    \A i \in DOMAIN d_returned : \A j \in DOMAIN d_returned :
        DefaultCalls(i, j) =>
            /\ d_returned[j].steps = d_returned[i].steps
            /\ d_returned[j].steps = OwnSteps

=============================================================================
